---------------------------- MODULE Spec2Model ----------------------------
(***************************************************************************)
(* Model of the raw-input joystick backend of joystick-rs.                 *)
(*                                                                         *)
(* The repository holds two producer loops:                                *)
(*   - start_message_loop   (src/driver/rawinput/api.rs), with the report  *)
(*     decoder get_input_event and the resolver get_device_cap;            *)
(*   - start_event_loop     (src/driver/rawinput/mod.rs), started by       *)
(*     Config::start and owned by Mgr.                                     *)
(* Both are modelled; the variable `pipeline` says which one a behaviour   *)
(* runs ("api" or "mod").                                                  *)
(***************************************************************************)
EXTENDS Integers, Sequences, FiniteSets, TLC

(***************************************************************************)
(* Bounds of the model.                                                    *)
(***************************************************************************)
\* device identities are 1..MaxIdent
MaxIdent == 2
\* notifications the producer takes from the platform in one behaviour
MaxNotifications == 3
\* largest event_buf_size tried (Some(0)..Some(MaxBuf), and None)
MaxBuf == 1
\* capacity of the button bitset (ButtonBits::CAP), scaled down
CAP == 3
\* width of one limb of B256 (128 in the source, scaled)
LimbCap == 2
\* number of buttons the profile declares (14 for PS4Compact, scaled with CAP:
\* fewer than a bitset holds)
BTN_NUM == 2
\* capability records of one descriptor tried by the resolver
MaxCaps == 2
\* button capability records name the data indices 0..MaxDataIndex
MaxDataIndex == 2
\* hat raw codes tried: 0..MaxHatCode (0..7 are directions, the rest is not)
MaxHatCode == 9
\* a data notification carries 1..MaxReports reports
MaxReports == 2

(***************************************************************************)
(* Platform constants (windows crate).                                     *)
(***************************************************************************)
HID_USAGE_PAGE_GENERIC == 1
HID_USAGE_GENERIC_JOYSTICK == 4
HID_USAGE_GENERIC_GAMEPAD == 5
HID_USAGE_GENERIC_X == 48
HID_USAGE_GENERIC_Y == 49
HID_USAGE_GENERIC_Z == 50
HID_USAGE_GENERIC_RX == 51
HID_USAGE_GENERIC_RY == 52
HID_USAGE_GENERIC_RZ == 53
HID_USAGE_GENERIC_SLIDER == 54
HID_USAGE_GENERIC_HATSWITCH == 57

HID_AXIS_USAGES ==
    << HID_USAGE_GENERIC_X, HID_USAGE_GENERIC_Y, HID_USAGE_GENERIC_Z,
       HID_USAGE_GENERIC_RX, HID_USAGE_GENERIC_RY, HID_USAGE_GENERIC_RZ >>

\* AxisIdent::Limit
AxisLimit == 6

\* u16::MAX
U16Max == 65535

(***************************************************************************)
(* Option<T>, Result and HashMap helpers.                                  *)
(***************************************************************************)
None == << >>
Some(x) == << x >>
IsSome(o) == o # << >>
Unwrap(o) == o[1]

EmptyMap == << >>
\* a faulty insert that keeps the earlier value
MapInsertKeep(m, k, v) ==
    [x \in (DOMAIN m) \cup {k} |-> IF x \in DOMAIN m THEN m[x] ELSE v]
\* HashMap::insert: the later value replaces the earlier one
MapInsert(m, k, v) == [x \in (DOMAIN m) \cup {k} |-> IF x = k THEN v ELSE m[x]]
\* HashMap::remove
MapRemove(m, k) == [x \in (DOMAIN m) \ {k} |-> m[x]]

(***************************************************************************)
(* Bits: a bitset is the natural number whose binary digits are its bits.  *)
(***************************************************************************)
RECURSIVE Pow2(_)
Pow2(n) == IF n = 0 THEN 1 ELSE 2 * Pow2(n - 1)

\* (self & (1 << pos)) != 0, None when pos >= CAP
BitsBit(b, pos) ==
    IF pos >= CAP THEN None ELSE Some(((b \div Pow2(pos)) % 2) = 1)

\* a faulty set whose bound check is off by one
BitsSetOffByOne(b, pos) ==
    IF pos > CAP THEN << b, FALSE >>
    ELSE IF ((b \div Pow2(pos)) % 2) = 1 THEN << b, TRUE >>
         ELSE << b + Pow2(pos), TRUE >>

\* *self |= 1 << pos; the result is <<new bitset, returned bool>>
BitsSet(b, pos) ==
    IF pos >= CAP THEN << b, FALSE >>
    ELSE IF ((b \div Pow2(pos)) % 2) = 1 THEN << b, TRUE >>
         ELSE << b + Pow2(pos), TRUE >>

RECURSIVE BitsXorFrom(_, _, _)
BitsXorFrom(a, b, pos) ==
    IF pos >= CAP THEN 0
    ELSE (IF ((a \div Pow2(pos)) % 2) # ((b \div Pow2(pos)) % 2) THEN Pow2(pos) ELSE 0)
         + BitsXorFrom(a, b, pos + 1)

RECURSIVE BitsOrFrom(_, _, _)
BitsOrFrom(a, b, pos) ==
    IF pos >= CAP THEN 0
    ELSE (IF ((a \div Pow2(pos)) % 2) + ((b \div Pow2(pos)) % 2) > 0 THEN Pow2(pos) ELSE 0)
         + BitsOrFrom(a, b, pos + 1)

\* a faulty xor that is the bitwise or
BitsOr(a, b) == BitsOrFrom(a, b, 0)

\* a ^ b
BitsXor(a, b) == BitsXorFrom(a, b, 0)

RECURSIVE BitsCountFrom(_, _)
BitsCountFrom(b, pos) ==
    IF pos >= CAP THEN 0
    ELSE ((b \div Pow2(pos)) % 2) + BitsCountFrom(b, pos + 1)

\* count_ones
BitsCountOnes(b) == BitsCountFrom(b, 0)

(***************************************************************************)
(* bits.rs: B256, two limbs <<limb 0, limb 1>> of LimbCap bits each.       *)
(***************************************************************************)
B256CAP == 2 * LimbCap

B256Default == << 0, 0 >>

\* (limb & (1 << pos)) != 0
LimbTest(limb, pos) == ((limb \div Pow2(pos)) % 2) = 1

\* limb |= 1 << pos
LimbOr(limb, pos) == IF LimbTest(limb, pos) THEN limb ELSE limb + Pow2(pos)

RECURSIVE LimbXorFrom(_, _, _)
LimbXorFrom(x, y, pos) ==
    IF pos >= LimbCap THEN 0
    ELSE (IF LimbTest(x, pos) # LimbTest(y, pos) THEN Pow2(pos) ELSE 0)
         + LimbXorFrom(x, y, pos + 1)

RECURSIVE LimbCountFrom(_, _)
LimbCountFrom(x, pos) ==
    IF pos >= LimbCap THEN 0
    ELSE (IF LimbTest(x, pos) THEN 1 ELSE 0) + LimbCountFrom(x, pos + 1)

\* Bits::bit for B256
B256Bit(b, pos) ==
    IF pos >= B256CAP THEN None
    ELSE Some(IF pos < LimbCap THEN LimbTest(b[1], pos)
              ELSE LimbTest(b[2], pos - LimbCap))

\* a faulty set that routes every position to limb 0
B256SetAliased(b, pos) ==
    IF pos >= B256CAP THEN << b, FALSE >>
    ELSE IF pos < LimbCap THEN << << LimbOr(b[1], pos), b[2] >>, TRUE >>
    ELSE << << LimbOr(b[1], pos - LimbCap), b[2] >>, TRUE >>

\* Bits::set for B256; the result is <<new bitset, returned bool>>
B256Set(b, pos) ==
    IF pos >= B256CAP THEN << b, FALSE >>
    ELSE IF pos < LimbCap THEN << << LimbOr(b[1], pos), b[2] >>, TRUE >>
    ELSE << << b[1], LimbOr(b[2], pos - LimbCap) >>, TRUE >>

\* Bits::count_ones for B256
B256CountOnes(b) == LimbCountFrom(b[1], 0) + LimbCountFrom(b[2], 0)

\* BitXor for B256
B256Xor(x, y) == << LimbXorFrom(x[1], y[1], 0), LimbXorFrom(x[2], y[2], 0) >>

(***************************************************************************)
(* Capability records, as returned by the HID capability source.           *)
(* A button capability is [IsRange, DataIndex, DataIndexMax]; a value      *)
(* capability is [IsRange, UsagePage, Usage, DataIndex, LogicalMin,        *)
(* LogicalMax]. Range and NotRange are the two views of one union:         *)
(* Range.DataIndexMin and NotRange.DataIndex are the field DataIndex,      *)
(* Range.UsageMin and NotRange.Usage are the field Usage.                  *)
(*                                                                         *)
(* What the platform answers about one device (a descriptor) is            *)
(* [sys_ok, hid_joystick, max_data_count, button_caps, value_caps]:        *)
(* sys_ok is FALSE when a GetRawInputDeviceInfoW / HidP_* call fails.      *)
(***************************************************************************)
ObjIdx(kind, a, b) == [kind |-> kind, a |-> a, b |-> b]

\* the two views of the capability union
RangeDataIndexMin(cap) == cap.DataIndex
NotRangeDataIndex(cap) == cap.DataIndex
RangeUsageMin(cap) == cap.Usage
NotRangeUsage(cap) == cap.Usage

Err == [tag |-> "Err", val |-> << >>]
Ok(v) == [tag |-> "Ok", val |-> v]

\* position of a usage in HID_AXIS_USAGES (AxisIdent as usize), AxisLimit if none
AxisOfUsage(usage) ==
    IF \E i \in 1..AxisLimit : HID_AXIS_USAGES[i] = usage
    THEN (CHOOSE i \in 1..AxisLimit : HID_AXIS_USAGES[i] = usage) - 1
    ELSE AxisLimit

\* is_hid_joystick: dwType == RIM_TYPEHID, generic page, joystick or gamepad usage
is_hid_joystick(desc) == desc.hid_joystick

(***************************************************************************)
(* api.rs: get_device_cap                                                  *)
(***************************************************************************)
DeviceCapDefault ==
    [ dpad |-> None, buttons_num |-> 0,
      axis_caps |-> [i \in 0..(AxisLimit - 1) |-> None],
      slider |-> None, mapping |-> EmptyMap ]

RECURSIVE ApiButtonRange(_, _, _)
ApiButtonRange(mapping, lo, hi) ==
    IF lo > hi THEN mapping
    ELSE ApiButtonRange(
            MapInsert(mapping, lo, ObjIdx("Button", Cardinality(DOMAIN mapping), 0)),
            lo + 1, hi)

RECURSIVE ApiButtonCaps(_, _, _)
ApiButtonCaps(mapping, caps, i) ==
    IF i > Len(caps) THEN mapping
    ELSE LET c == caps[i] IN
         ApiButtonCaps(
            IF c.IsRange
            THEN ApiButtonRange(mapping, c.DataIndex, c.DataIndexMax)
            ELSE MapInsert(mapping, c.DataIndex,
                           ObjIdx("Button", Cardinality(DOMAIN mapping), 0)),
            caps, i + 1)

\* the typed slot and object identity of one value capability, None for "no slot"
ApiValueObject(cap) ==
    LET usage == IF cap.IsRange THEN RangeUsageMin(cap) ELSE NotRangeUsage(cap) IN
    IF cap.UsagePage = HID_USAGE_PAGE_GENERIC /\ usage = HID_USAGE_GENERIC_SLIDER
    THEN Some(ObjIdx("Slider", 0, 0))
    ELSE IF cap.UsagePage = HID_USAGE_PAGE_GENERIC /\ usage = HID_USAGE_GENERIC_HATSWITCH
    THEN IF ~(cap.LogicalMin = 0 /\ cap.LogicalMax = 7)
         THEN None
         ELSE Some(ObjIdx("DPad", 0, 0))
    ELSE IF cap.UsagePage = HID_USAGE_PAGE_GENERIC /\ AxisOfUsage(usage) < AxisLimit
    THEN Some(ObjIdx("Axis", AxisOfUsage(usage), 0))
    ELSE None

ApiValueCap(dev_cap, cap) ==
    LET di == IF cap.IsRange THEN RangeDataIndexMin(cap) ELSE NotRangeDataIndex(cap)
        object == ApiValueObject(cap)
    IN  IF ~IsSome(object) THEN dev_cap
        ELSE LET dev_id == Unwrap(object)
                 slotted ==
                    IF dev_id.kind = "Slider" THEN [dev_cap EXCEPT !.slider = Some(cap)]
                    ELSE IF dev_id.kind = "DPad" THEN [dev_cap EXCEPT !.dpad = Some(cap)]
                    ELSE [dev_cap EXCEPT !.axis_caps[dev_id.a] = Some(cap)]
             IN  [slotted EXCEPT !.mapping = MapInsert(dev_cap.mapping, di, dev_id)]

RECURSIVE ApiValueCaps(_, _, _)
ApiValueCaps(dev_cap, caps, i) ==
    IF i > Len(caps) THEN dev_cap
    ELSE ApiValueCaps(ApiValueCap(dev_cap, caps[i]), caps, i + 1)

\* Err, Ok(None) or Ok(Some(DeviceCap))
get_device_cap(desc) ==
    IF desc.max_data_count = 0 \/ ~desc.sys_ok THEN Err
    ELSE IF Len(desc.button_caps) = 0 /\ Len(desc.value_caps) = 0 THEN Ok(None)
    ELSE LET mapping == IF Len(desc.button_caps) > 0
                        THEN ApiButtonCaps(EmptyMap, desc.button_caps, 1)
                        ELSE EmptyMap
             buttons_num == Cardinality(DOMAIN mapping)
         IN  IF Len(desc.button_caps) > 0 /\ buttons_num > CAP THEN Ok(None)
             ELSE Ok(Some(ApiValueCaps(
                    [DeviceCapDefault EXCEPT !.mapping = mapping,
                                             !.buttons_num = buttons_num],
                    desc.value_caps, 1)))

(***************************************************************************)
(* api.rs: get_device                                                      *)
(***************************************************************************)
DeviceObjectStatesDefault ==
    [ dpad |-> None, buttons |-> 0,
      axis |-> [i \in 0..(AxisLimit - 1) |-> None], slider |-> None ]

\* the published range of one axis capability
ApiAxisRange(val_caps) ==
    IF val_caps.LogicalMin = 0 /\ val_caps.LogicalMax = -1
    THEN << 0, U16Max >>
    ELSE << val_caps.LogicalMin, val_caps.LogicalMax >>

ApiDeviceInfo(cap) ==
    [ buttons_num |-> cap.buttons_num,
      dpad |-> IsSome(cap.dpad),
      axis |-> [i \in 0..(AxisLimit - 1) |->
                  IF IsSome(cap.axis_caps[i])
                  THEN Some(ApiAxisRange(Unwrap(cap.axis_caps[i])))
                  ELSE None],
      slider |-> IF IsSome(cap.slider)
                 THEN Some(<< Unwrap(cap.slider).LogicalMin, Unwrap(cap.slider).LogicalMax >>)
                 ELSE None ]

\* a faulty get_device that reports an unsupported device type as an error
ApiGetDeviceUnsupportedErr(desc) ==
    IF ~desc.sys_ok THEN Err
    ELSE IF ~is_hid_joystick(desc) THEN Err
    ELSE IF desc.max_data_count = 0 THEN Err
    ELSE LET cap == get_device_cap(desc) IN
         IF cap.tag = "Err" THEN Err
         ELSE IF ~IsSome(cap.val) THEN Ok(None)
         ELSE Ok(Some(<< ApiDeviceInfo(Unwrap(cap.val)),
                         [ max_data_count |-> desc.max_data_count,
                           cap |-> Unwrap(cap.val),
                           obj_states |-> DeviceObjectStatesDefault ] >>))

\* Err, Ok(None) or Ok(Some(<<DeviceInfo, DeviceStatus>>))
ApiGetDevice(desc) ==
    IF ~desc.sys_ok THEN Err
    ELSE IF ~is_hid_joystick(desc) THEN Ok(None)
    ELSE IF desc.max_data_count = 0 THEN Err
    ELSE LET cap == get_device_cap(desc) IN
         IF cap.tag = "Err" THEN Err
         ELSE IF ~IsSome(cap.val) THEN Ok(None)
         ELSE Ok(Some(<< ApiDeviceInfo(Unwrap(cap.val)),
                         [ max_data_count |-> desc.max_data_count,
                           cap |-> Unwrap(cap.val),
                           obj_states |-> DeviceObjectStatesDefault ] >>))

(***************************************************************************)
(* mod.rs: get_device                                                      *)
(***************************************************************************)
DevInfoDefault ==
    [ buttons |-> 0, axises |-> << >>, sliders |-> 0, hats |-> 0, mapping |-> EmptyMap ]

RECURSIVE ModButtonRange(_, _, _)
ModButtonRange(info, lo, hi) ==
    IF lo > hi THEN info
    ELSE ModButtonRange(
            [info EXCEPT !.mapping = MapInsert(info.mapping, lo, ObjIdx("Button", info.buttons, 0)),
                         !.buttons = info.buttons + 1],
            lo + 1, hi)

RECURSIVE ModButtonCaps(_, _, _)
ModButtonCaps(info, caps, i) ==
    IF i > Len(caps) THEN info
    ELSE LET c == caps[i] IN
         ModButtonCaps(
            IF c.IsRange
            THEN ModButtonRange(info, c.DataIndex, c.DataIndexMax)
            ELSE [info EXCEPT !.mapping = MapInsert(info.mapping, c.DataIndex,
                                                    ObjIdx("Button", info.buttons, 0)),
                              !.buttons = info.buttons + 1],
            caps, i + 1)

\* one value capability; st is [info, axis_specs, slider_specs]
ModValueCap(st, cap) ==
    LET di == IF cap.IsRange THEN RangeDataIndexMin(cap) ELSE NotRangeUsage(cap)
        usage == IF cap.IsRange THEN RangeUsageMin(cap) ELSE NotRangeDataIndex(cap)
        range == << cap.LogicalMin, cap.LogicalMax >>
        info == st.info
    IN  IF cap.UsagePage = HID_USAGE_PAGE_GENERIC /\ usage = HID_USAGE_GENERIC_SLIDER
        THEN [ info |-> [info EXCEPT !.sliders = info.sliders + 1,
                                     !.mapping = MapInsert(info.mapping, di,
                                                           ObjIdx("Slider", info.sliders, 0))],
               axis_specs |-> st.axis_specs,
               slider_specs |-> Append(st.slider_specs, range) ]
        ELSE IF cap.UsagePage = HID_USAGE_PAGE_GENERIC /\ usage = HID_USAGE_GENERIC_HATSWITCH
        THEN [ info |-> [info EXCEPT !.hats = info.hats + 1,
                                     !.mapping = MapInsert(info.mapping, di,
                                                           ObjIdx("Hat", info.hats, 0))],
               axis_specs |-> st.axis_specs,
               slider_specs |-> st.slider_specs ]
        ELSE IF cap.UsagePage = HID_USAGE_PAGE_GENERIC /\ AxisOfUsage(usage) < AxisLimit
        THEN [ info |-> [info EXCEPT !.axises = Append(info.axises, AxisOfUsage(usage)),
                                     !.mapping = MapInsert(info.mapping, di,
                                                           ObjIdx("Axis", Len(info.axises), 0))],
               axis_specs |-> Append(st.axis_specs, << AxisOfUsage(usage), range >>),
               slider_specs |-> st.slider_specs ]
        ELSE [ info |-> [info EXCEPT !.mapping = MapInsert(info.mapping, di,
                                                           ObjIdx("Unknown", cap.UsagePage, usage))],
               axis_specs |-> st.axis_specs,
               slider_specs |-> st.slider_specs ]

RECURSIVE ModValueCaps(_, _, _)
ModValueCaps(st, caps, i) ==
    IF i > Len(caps) THEN st
    ELSE ModValueCaps(ModValueCap(st, caps[i]), caps, i + 1)

\* Err or Ok(<<DevInfo, DeviceSpecs>>)
ModGetDevice(desc) ==
    IF ~desc.sys_ok THEN Err
    ELSE IF ~is_hid_joystick(desc) THEN Err
    ELSE LET binfo == IF Len(desc.button_caps) > 0
                      THEN ModButtonCaps(DevInfoDefault, desc.button_caps, 1)
                      ELSE DevInfoDefault
             st0 == [info |-> binfo, axis_specs |-> << >>, slider_specs |-> << >>]
             st == IF Len(desc.value_caps) > 0
                   THEN ModValueCaps(st0, desc.value_caps, 1)
                   ELSE st0
         IN  Ok(<< st.info,
                   [ button_count |-> st.info.buttons,
                     axis |-> st.axis_specs,
                     sliders |-> st.slider_specs,
                     hats_count |-> st.info.hats ] >>)

(***************************************************************************)
(* Events. Every event is [type, id, is_sink, body]; body is the           *)
(* DeviceInfo of an Attached, the StateDiff of a StateDiff, << >> else.    *)
(***************************************************************************)
Event(type, id, is_sink, body) ==
    [type |-> type, id |-> id, is_sink |-> is_sink, body |-> body]

(***************************************************************************)
(* api.rs: get_input_event                                                 *)
(* A raw input is [read_ok, hid, hDevice, reports]; a report (chunk) is    *)
(* [ok, data], data a sequence of [DataIndex, RawValue, On].               *)
(***************************************************************************)
\* a faulty hat code table that wraps the codes above 7 around
DPadStateOfWrapped(raw) ==
    << "Up", "UpRight", "Right", "DownRight", "Down", "DownLeft", "Left", "UpLeft" >>[(raw % 8) + 1]

\* the hat code table
DPadStateOf(raw) ==
    CASE raw = 0 -> "Up"
      [] raw = 1 -> "UpRight"
      [] raw = 2 -> "Right"
      [] raw = 3 -> "DownRight"
      [] raw = 4 -> "Down"
      [] raw = 5 -> "DownLeft"
      [] raw = 6 -> "Left"
      [] raw = 7 -> "UpLeft"
      [] OTHER -> "Null"

\* RawValue as i32 (raw values of the model stay below 2^31)
AsI32(raw) == raw

\* a faulty decoder that starts the snapshot again at a field without entry
DecodeDataUnmappedResets(mapping, new_states, data) ==
    IF data.DataIndex \notin DOMAIN mapping
    THEN [ dpad |-> None, buttons |-> 0,
           axis |-> [i \in 0..(AxisLimit - 1) |-> None], slider |-> None ]
    ELSE LET obj_idx == mapping[data.DataIndex] IN
         CASE obj_idx.kind = "DPad" ->
                [new_states EXCEPT !.dpad = Some(DPadStateOf(data.RawValue))]
           [] obj_idx.kind = "Button" ->
                IF data.On
                THEN [new_states EXCEPT !.buttons = BitsSet(new_states.buttons, obj_idx.a)[1]]
                ELSE new_states
           [] obj_idx.kind = "Axis" ->
                IF obj_idx.a < AxisLimit
                THEN [new_states EXCEPT !.axis[obj_idx.a] = Some(AsI32(data.RawValue))]
                ELSE new_states
           [] obj_idx.kind = "Slider" ->
                [new_states EXCEPT !.slider = Some(AsI32(data.RawValue))]
           [] OTHER -> new_states

\* one HIDP_DATA item applied to new_states
DecodeData(mapping, new_states, data) ==
    IF data.DataIndex \notin DOMAIN mapping THEN new_states
    ELSE LET obj_idx == mapping[data.DataIndex] IN
         CASE obj_idx.kind = "DPad" ->
                [new_states EXCEPT !.dpad = Some(DPadStateOf(data.RawValue))]
           [] obj_idx.kind = "Button" ->
                IF data.On
                THEN [new_states EXCEPT !.buttons = BitsSet(new_states.buttons, obj_idx.a)[1]]
                ELSE new_states
           [] obj_idx.kind = "Axis" ->
                IF obj_idx.a < AxisLimit
                THEN [new_states EXCEPT !.axis[obj_idx.a] = Some(AsI32(data.RawValue))]
                ELSE new_states
           [] obj_idx.kind = "Slider" ->
                [new_states EXCEPT !.slider = Some(AsI32(data.RawValue))]
           [] OTHER -> new_states

RECURSIVE DecodeChunk(_, _, _, _)
DecodeChunk(mapping, new_states, data, i) ==
    IF i > Len(data) THEN new_states
    ELSE DecodeChunk(mapping, DecodeData(mapping, new_states, data[i]), data, i + 1)

\* a faulty report loop that passes over a malformed report
RECURSIVE DecodeReportsSkipMalformed(_, _, _, _)
DecodeReportsSkipMalformed(mapping, new_states, reports, i) ==
    IF i > Len(reports) THEN Ok(new_states)
    ELSE IF ~reports[i].ok
    THEN DecodeReportsSkipMalformed(mapping, new_states, reports, i + 1)
    ELSE DecodeReportsSkipMalformed(mapping,
                                    DecodeChunk(mapping, new_states, reports[i].data, 1),
                                    reports, i + 1)

\* a faulty report loop that starts every report from the default snapshot
RECURSIVE DecodeReportsEachFromDefault(_, _, _, _)
DecodeReportsEachFromDefault(mapping, new_states, reports, i) ==
    IF i > Len(reports) THEN Ok(new_states)
    ELSE IF ~reports[i].ok THEN Err
    ELSE DecodeReportsEachFromDefault(
            mapping, DecodeChunk(mapping, DeviceObjectStatesDefault, reports[i].data, 1),
            reports, i + 1)

\* the reports of one notification, in order; Err at the first malformed one
RECURSIVE DecodeReports(_, _, _, _)
DecodeReports(mapping, new_states, reports, i) ==
    IF i > Len(reports) THEN Ok(new_states)
    ELSE IF ~reports[i].ok THEN Err
    ELSE DecodeReports(mapping, DecodeChunk(mapping, new_states, reports[i].data, 1),
                       reports, i + 1)

\* a faulty get_input_event that decodes on top of the stored state
get_input_eventOnStored(devices, is_sink, raw) ==
    IF ~raw.read_ok THEN << Err, devices >>
    ELSE IF ~raw.hid THEN << Ok(None), devices >>
    ELSE IF raw.hDevice \notin DOMAIN devices THEN << Err, devices >>
    ELSE LET dev_status == devices[raw.hDevice]
             decoded == DecodeReports(dev_status.cap.mapping, dev_status.obj_states,
                                      raw.reports, 1)
         IN  IF decoded.tag = "Err" THEN << Err, devices >>
             ELSE LET new_states == decoded.val
                      prev_state == dev_status.obj_states
                      btns_diff == BitsXor(new_states.buttons, prev_state.buttons)
                  IN  << Ok(Some(Event("StateDiff", raw.hDevice, is_sink,
                                       [ dpad |-> new_states.dpad,
                                         buttons |-> << btns_diff, new_states.buttons >>,
                                         axis |-> new_states.axis,
                                         slider |-> new_states.slider ]))),
                         [devices EXCEPT ![raw.hDevice].obj_states = new_states] >>

\* a faulty get_input_event that stores the snapshot in every entry
get_input_eventStoreInAll(devices, is_sink, raw) ==
    IF ~raw.read_ok THEN << Err, devices >>
    ELSE IF ~raw.hid THEN << Ok(None), devices >>
    ELSE IF raw.hDevice \notin DOMAIN devices THEN << Err, devices >>
    ELSE LET dev_status == devices[raw.hDevice]
             decoded == DecodeReports(dev_status.cap.mapping, DeviceObjectStatesDefault,
                                      raw.reports, 1)
         IN  IF decoded.tag = "Err" THEN << Err, devices >>
             ELSE LET new_states == decoded.val
                      prev_state == dev_status.obj_states
                      btns_diff == BitsXor(new_states.buttons, prev_state.buttons)
                  IN  << Ok(Some(Event("StateDiff", raw.hDevice, is_sink,
                                       [ dpad |-> new_states.dpad,
                                         buttons |-> << btns_diff, new_states.buttons >>,
                                         axis |-> new_states.axis,
                                         slider |-> new_states.slider ]))),
                         [d \in DOMAIN devices |->
                            [devices[d] EXCEPT !.obj_states = new_states]] >>

\* <<Err | Ok(None) | Ok(Some(event)), devices afterwards>>
get_input_event(devices, is_sink, raw) ==
    IF ~raw.read_ok THEN << Err, devices >>
    ELSE IF ~raw.hid THEN << Ok(None), devices >>
    ELSE IF raw.hDevice \notin DOMAIN devices THEN << Err, devices >>
    ELSE LET dev_status == devices[raw.hDevice]
             decoded == DecodeReports(dev_status.cap.mapping, DeviceObjectStatesDefault,
                                      raw.reports, 1)
         IN  IF decoded.tag = "Err" THEN << Err, devices >>
             ELSE LET new_states == decoded.val
                      prev_state == dev_status.obj_states
                      btns_diff == BitsXor(new_states.buttons, prev_state.buttons)
                  IN  << Ok(Some(Event("StateDiff", raw.hDevice, is_sink,
                                       [ dpad |-> new_states.dpad,
                                         buttons |-> << btns_diff, new_states.buttons >>,
                                         axis |-> new_states.axis,
                                         slider |-> new_states.slider ]))),
                         [devices EXCEPT ![raw.hDevice].obj_states = new_states] >>

\* process_input_message: a message is [message, wparam, lparam, desc, raw]
process_input_message(devices, msg) ==
    IF msg.wparam = "RIM_INPUT" THEN get_input_event(devices, FALSE, msg.raw)
    ELSE IF msg.wparam = "RIM_INPUTSINK" THEN get_input_event(devices, TRUE, msg.raw)
    ELSE << Ok(None), devices >>

(***************************************************************************)
(* api.rs: process_input_change_message                                    *)
(***************************************************************************)
\* a faulty handler that treats the removal of an unknown identity as an error
process_input_change_message_StrictRemoval(devices, msg) ==
    IF msg.wparam = "GIDC_REMOVAL"
    THEN IF msg.lparam \in DOMAIN devices
         THEN << Ok(Some(Event("Deattached", msg.lparam, FALSE, << >>))),
                 MapRemove(devices, msg.lparam) >>
         ELSE << Err, devices >>
    ELSE IF msg.wparam # "GIDC_ARRIVAL" THEN << Ok(None), devices >>
    ELSE LET got == ApiGetDevice(msg.desc) IN
         IF got.tag = "Err" THEN << Err, devices >>
         ELSE IF ~IsSome(got.val) THEN << Ok(None), devices >>
         ELSE << Ok(Some(Event("Attached", msg.lparam, FALSE, Unwrap(got.val)[1]))),
                 MapInsert(devices, msg.lparam, Unwrap(got.val)[2]) >>

\* a faulty handler that keeps the stored state of an identity that arrives again
process_input_change_messageKeepsState(devices, msg) ==
    IF msg.wparam = "GIDC_REMOVAL"
    THEN << Ok(Some(Event("Deattached", msg.lparam, FALSE, << >>))),
            MapRemove(devices, msg.lparam) >>
    ELSE IF msg.wparam # "GIDC_ARRIVAL" THEN << Ok(None), devices >>
    ELSE LET got == ApiGetDevice(msg.desc) IN
         IF got.tag = "Err" THEN << Err, devices >>
         ELSE IF ~IsSome(got.val) THEN << Ok(None), devices >>
         ELSE << Ok(Some(Event("Attached", msg.lparam, FALSE, Unwrap(got.val)[1]))),
                 MapInsert(devices, msg.lparam,
                           IF msg.lparam \in DOMAIN devices
                           THEN [Unwrap(got.val)[2] EXCEPT
                                    !.obj_states = devices[msg.lparam].obj_states]
                           ELSE Unwrap(got.val)[2]) >>

process_input_change_message(devices, msg) ==
    IF msg.wparam = "GIDC_REMOVAL"
    THEN << Ok(Some(Event("Deattached", msg.lparam, FALSE, << >>))),
            MapRemove(devices, msg.lparam) >>
    ELSE IF msg.wparam # "GIDC_ARRIVAL" THEN << Ok(None), devices >>
    ELSE LET got == ApiGetDevice(msg.desc) IN
         IF got.tag = "Err" THEN << Err, devices >>
         ELSE IF ~IsSome(got.val) THEN << Ok(None), devices >>
         ELSE << Ok(Some(Event("Attached", msg.lparam, FALSE, Unwrap(got.val)[1]))),
                 MapInsert(devices, msg.lparam, Unwrap(got.val)[2]) >>

(***************************************************************************)
(* mod.rs: proc_input_change_message (proc_input_message is                *)
(* unimplemented!() and is modelled in the loop as a panic)                *)
(***************************************************************************)
\* <<Err | Ok(event), devices afterwards>>
proc_input_change_message(devices, msg) ==
    IF msg.wparam = "GIDC_REMOVAL"
    THEN << Ok(Event("Deattached", msg.lparam, FALSE, << >>)), devices >>
    ELSE IF msg.wparam # "GIDC_ARRIVAL" THEN << Err, devices >>
    ELSE LET got == ModGetDevice(msg.desc) IN
         IF got.tag = "Err" THEN << Err, devices >>
         ELSE << Ok(Event("Attached", msg.lparam, FALSE, got.val[2])),
                 MapInsert(devices, msg.lparam, got.val[1]) >>

(***************************************************************************)
(* driver/mod.rs: StateDiff::diffs for a profile J                         *)
(***************************************************************************)
\* profile.rs, PS4Compact::BUTTONS
PS4CompactButtons ==
    << "West", "South", "East", "North", "LShoulder", "RShoulder", "LTrigger",
       "RTrigger", "Select", "Start", "LThumb", "RThumb", "Mode", "TrackPad" >>

\* J::BUTTONS: the first BTN_NUM buttons of the profile
J_BUTTONS == SubSeq(PS4CompactButtons, 1, BTN_NUM)

\* profile.rs, PS4Compact::AXIS (the typ of each AxisDef)
J_AXIS ==
    [i \in 0..(AxisLimit - 1) |->
        Some(<< "LThumbX", "LThumbY", "RThumbX", "LTrigger", "RTrigger", "RThumbY" >>[i + 1])]

\* an ObjectDiff: DPad(state), Button(ident, state), Axis(ident, value), Slider(value)
ObjectDiff(kind, ident, state, value) ==
    [kind |-> kind, ident |-> ident, state |-> state, value |-> value]

\* From<bool> for ButtonState
ButtonStateFrom(v) == IF v THEN "Pressed" ELSE "Released"

\* a faulty button loop that reads the state from the changed bits
RECURSIVE ButtonDiffsStateOfChanged(_, _)
ButtonDiffsStateOfChanged(buttons, idx) ==
    IF idx >= Len(J_BUTTONS) THEN << >>
    ELSE (IF BitsBit(buttons[1], idx) = Some(TRUE)
          THEN << ObjectDiff("Button", J_BUTTONS[idx + 1],
                             ButtonStateFrom(IF IsSome(BitsBit(buttons[1], idx))
                                             THEN Unwrap(BitsBit(buttons[1], idx))
                                             ELSE FALSE), 0) >>
          ELSE << >>)
         \o ButtonDiffsStateOfChanged(buttons, idx + 1)

RECURSIVE ButtonDiffs(_, _)
ButtonDiffs(buttons, idx) ==
    IF idx >= Len(J_BUTTONS) THEN << >>
    ELSE (IF BitsBit(buttons[1], idx) = Some(TRUE)
          THEN << ObjectDiff("Button", J_BUTTONS[idx + 1],
                             ButtonStateFrom(IF IsSome(BitsBit(buttons[2], idx))
                                             THEN Unwrap(BitsBit(buttons[2], idx))
                                             ELSE FALSE), 0) >>
          ELSE << >>)
         \o ButtonDiffs(buttons, idx + 1)

\* a faulty axis loop that reports every axis of the profile, 0 when absent
RECURSIVE AxisDiffsEveryAxis(_, _)
AxisDiffsEveryAxis(axis, idx) ==
    IF idx >= AxisLimit THEN << >>
    ELSE (IF IsSome(J_AXIS[idx])
          THEN << ObjectDiff("Axis", Unwrap(J_AXIS[idx]), "",
                             IF IsSome(axis[idx]) THEN Unwrap(axis[idx]) ELSE 0) >>
          ELSE << >>)
         \o AxisDiffsEveryAxis(axis, idx + 1)

RECURSIVE AxisDiffs(_, _)
AxisDiffs(axis, idx) ==
    IF idx >= AxisLimit THEN << >>
    ELSE (IF IsSome(J_AXIS[idx]) /\ IsSome(axis[idx])
          THEN << ObjectDiff("Axis", Unwrap(J_AXIS[idx]), "", Unwrap(axis[idx])) >>
          ELSE << >>)
         \o AxisDiffs(axis, idx + 1)

\* a faulty diffs that pushes the slider first
diffsSliderFirst(diff) ==
    (IF IsSome(diff.slider) THEN << ObjectDiff("Slider", "", "", Unwrap(diff.slider)) >> ELSE << >>)
    \o (IF IsSome(diff.dpad) THEN << ObjectDiff("DPad", "", Unwrap(diff.dpad), 0) >> ELSE << >>)
    \o ButtonDiffs(diff.buttons, 0)
    \o AxisDiffs(diff.axis, 0)

\* the ObjectDiff list of one StateDiff
diffs(diff) ==
    (IF IsSome(diff.dpad) THEN << ObjectDiff("DPad", "", Unwrap(diff.dpad), 0) >> ELSE << >>)
    \o ButtonDiffs(diff.buttons, 0)
    \o AxisDiffs(diff.axis, 0)
    \o (IF IsSome(diff.slider) THEN << ObjectDiff("Slider", "", "", Unwrap(diff.slider)) >> ELSE << >>)

(***************************************************************************)
(* The inputs the platform may deliver.                                    *)
(***************************************************************************)
Idents == 1..MaxIdent

\* 2 buttons on data indices 0..1 and an X axis [0,255] on data index 2
DescTwoButtonsX ==
    [ sys_ok |-> TRUE, hid_joystick |-> TRUE, max_data_count |-> 3,
      button_caps |-> << [IsRange |-> TRUE, DataIndex |-> 0, DataIndexMax |-> 1] >>,
      value_caps |-> << [ IsRange |-> TRUE, UsagePage |-> HID_USAGE_PAGE_GENERIC,
                          Usage |-> HID_USAGE_GENERIC_X, DataIndex |-> 2,
                          LogicalMin |-> 0, LogicalMax |-> 255 ] >> ]
\* a HID device that is neither joystick nor gamepad
DescUnsupported == [DescTwoButtonsX EXCEPT !.hid_joystick = FALSE]
\* a device whose descriptor cannot be read
DescSysError == [DescTwoButtonsX EXCEPT !.sys_ok = FALSE]
\* a parsable descriptor with no button and no value capability
DescEmpty == [DescTwoButtonsX EXCEPT !.button_caps = << >>, !.value_caps = << >>]

Descriptors == { DescTwoButtonsX, DescUnsupported, DescSysError, DescEmpty }

\* one report pressing button 0 (data index 0)
RawPress0(d) ==
    [ read_ok |-> TRUE, hid |-> TRUE, hDevice |-> d,
      reports |-> << [ok |-> TRUE,
                      data |-> << [DataIndex |-> 0, RawValue |-> 1, On |-> TRUE] >>] >> ]
\* a report that HidP_GetData rejects
RawMalformed(d) == [RawPress0(d) EXCEPT !.reports = << [ok |-> FALSE, data |-> << >>] >>]
\* GetRawInputData fails
RawReadFail == [RawPress0(1) EXCEPT !.read_ok = FALSE]
\* raw input that is not of type HID
RawNotHid == [RawPress0(1) EXCEPT !.hid = FALSE]

Msg(message, wparam, lparam, desc, raw) ==
    [message |-> message, wparam |-> wparam, lparam |-> lparam, desc |-> desc, raw |-> raw]

\* every identity can arrive with the resolvable descriptor; the descriptors that
\* do not resolve arrive for identity 1
ChangeMessages ==
    { Msg("WM_INPUT_DEVICE_CHANGE", "GIDC_ARRIVAL", d, DescTwoButtonsX, RawNotHid) :
        d \in Idents }
    \cup { Msg("WM_INPUT_DEVICE_CHANGE", "GIDC_ARRIVAL", 1, desc, RawNotHid) :
                desc \in Descriptors }
    \cup { Msg("WM_INPUT_DEVICE_CHANGE", "GIDC_REMOVAL", d, DescEmpty, RawNotHid) : d \in Idents }
    \cup { Msg("WM_INPUT_DEVICE_CHANGE", "other", 1, DescEmpty, RawNotHid) }

InputMessages ==
    { Msg("WM_INPUT", "RIM_INPUT", 0, DescEmpty, RawPress0(d)) : d \in Idents }
    \cup { Msg("WM_INPUT", "RIM_INPUTSINK", 0, DescEmpty, RawMalformed(1)),
           Msg("WM_INPUT", "RIM_INPUT", 0, DescEmpty, RawReadFail),
           Msg("WM_INPUT", "RIM_INPUT", 0, DescEmpty, RawNotHid),
           Msg("WM_INPUT", "other", 0, DescEmpty, RawPress0(1)) }

\* a message that is neither WM_CLOSE, WM_INPUT nor WM_INPUT_DEVICE_CHANGE
OtherMessage == Msg("other", "other", 0, DescEmpty, RawNotHid)

\* start_message_loop filters 0..WM_INPUT, start_event_loop
\* WM_INPUT_DEVICE_CHANGE..WM_INPUT
ApiMessages == ChangeMessages \cup InputMessages \cup {OtherMessage}
ModMessages == ChangeMessages \cup InputMessages

(***************************************************************************)
(* State.                                                                  *)
(***************************************************************************)
VARIABLES
    pipeline,        \* "api": start_message_loop, "mod": start_event_loop
    event_buf_size,  \* Config.event_buf_size: None (unbounded) or Some(n)
    other_consumer,  \* a thread other than the owner also receives
    pc,              \* producer: "wait", "send", "send_final", "done", "panicked"
    devices,         \* the loop's device map, as the last iteration left it
    chan,            \* the values in the channel, oldest first
    pending,         \* the value a blocked send is holding
    delivered,       \* the values consumers have received, in order
    hwnd,            \* "open", "close_posted", "destroyed"
    owner,           \* the owning handle: "running", "joining", "closed"
    seq,             \* notifications taken so far
    attached,        \* history: the identities whose last change was a resolved
                     \* arrival, with the descriptor and whether data came since
    last,            \* history: the last notification and what it produced
    close_pc,        \* history: where the producer was when close was called
    call             \* the function under examination: its inputs and results
                     \* (NoCall while the pipeline runs)

vars == << pipeline, event_buf_size, other_consumer, pc, devices, chan, pending,
           delivered, hwnd, owner, seq, attached, last, close_pc, call >>

\* history record of one loop iteration: the message, what the handler returned
\* ("event", "none", "err", "panic"), the event sent, the map the handler was given
\* and what the platform had last announced about the identity (att)
IdentOf(msg) == IF msg.message = "WM_INPUT" THEN msg.raw.hDevice ELSE msg.lparam

History(msg, outcome, evt, before) ==
    [ msg |-> msg, outcome |-> outcome, evt |-> evt, before |-> before,
      att |-> IF IdentOf(msg) \in DOMAIN attached THEN Some(attached[IdentOf(msg)]) ELSE None ]

NoMessage == Msg("none", "none", 0, DescEmpty, RawNotHid)
NoLast ==
    [ msg |-> NoMessage, outcome |-> "none", evt |-> None, before |-> EmptyMap,
      att |-> None ]

NoCall == [fn |-> "none"]

Init ==
    /\ pipeline \in {"api", "mod"}
    /\ event_buf_size \in {None} \cup { Some(n) : n \in 0..MaxBuf }
    /\ other_consumer \in BOOLEAN
    /\ pc = "wait"
    /\ devices = EmptyMap
    /\ chan = << >>
    /\ pending = None
    /\ delivered = << >>
    /\ hwnd = "open"
    /\ owner = "running"
    /\ seq = 0
    /\ attached = EmptyMap
    /\ last = NoLast
    /\ close_pc = "none"
    /\ call = NoCall

\* the Mgr (and with it its Receiver) lives until the join has returned
ReceiverAlive == owner # "closed"

\* a faulty bounded channel that takes one value more than its size
HasRoomOneMore == ~IsSome(event_buf_size) \/ Len(chan) <= Unwrap(event_buf_size)

\* bounded(size): room while fewer than size values wait; unbounded(): always
HasRoom == ~IsSome(event_buf_size) \/ Len(chan) < Unwrap(event_buf_size)

\* a faulty channel that hands out the newest value first
ChanSendFront(c, v) == << v >> \o c

\* Sender::send
ChanSend(c, v) == Append(c, v)

(***************************************************************************)
(* The producer thread.                                                    *)
(***************************************************************************)
\* a value on the channel: the event and, as history, the number of the
\* notification it was produced from
Value(n, evt) == [n |-> n, evt |-> evt]

\* a faulty loop that ignores the error of a send and goes on
LoopSendIgnoreBroken(v, on_broken) ==
    IF ~ReceiverAlive
    THEN /\ UNCHANGED << chan, pending >>
         /\ pc' = "wait"
    ELSE IF HasRoom
    THEN /\ chan' = ChanSend(chan, v)
         /\ pending' = None
         /\ pc' = "wait"
    ELSE /\ chan' = chan
         /\ pending' = Some(v)
         /\ pc' = "send"

\* tx.send(v) at the end of a loop iteration: Ok and back to the wait, blocked
\* while a bounded channel is full, Err (the loop returns) without a receiver
LoopSend(v, on_broken) ==
    IF ~ReceiverAlive
    THEN /\ UNCHANGED << chan, pending >>
         /\ pc' = on_broken
    ELSE IF HasRoom
    THEN /\ chan' = ChanSend(chan, v)
         /\ pending' = None
         /\ pc' = "wait"
    ELSE /\ chan' = chan
         /\ pending' = Some(v)
         /\ pc' = "send"

\* a faulty thread closure that drops the loop's error instead of sending it
ModThreadExitSilent(is_err, v) ==
    /\ UNCHANGED << chan, pending >>
    /\ pc' = "done"

\* the thread after start_event_loop has returned: the closure of Config::start
\* sends Err(e) for a loop error and ends, which drops the Sender
ModThreadExit(is_err, v) ==
    IF is_err /\ ReceiverAlive
    THEN IF HasRoom
         THEN /\ chan' = ChanSend(chan, v)
              /\ pending' = None
              /\ pc' = "done"
         ELSE /\ chan' = chan
              /\ pending' = Some(v)
              /\ pc' = "send_final"
    ELSE /\ UNCHANGED << chan, pending >>
         /\ pc' = "done"

\* the thread after start_message_loop has returned: a loop error is published
\* as Interruption, then the thread ends and the Sender is dropped
ApiThreadExit(is_err, v) ==
    IF is_err /\ ReceiverAlive
    THEN IF HasRoom
         THEN /\ chan' = ChanSend(chan, v)
              /\ pending' = None
              /\ pc' = "done"
         ELSE /\ chan' = chan
              /\ pending' = Some(v)
              /\ pc' = "send_final"
    ELSE /\ UNCHANGED << chan, pending >>
         /\ pc' = "done"

\* a WM_INPUT whose raw input can be read, is HID and has well-formed reports
Decodable(msg) ==
    /\ msg.message = "WM_INPUT"
    /\ msg.wparam \in {"RIM_INPUT", "RIM_INPUTSINK"}
    /\ msg.raw.read_ok /\ msg.raw.hid
    /\ \A i \in DOMAIN msg.raw.reports : msg.raw.reports[i].ok

\* the identities with a resolved arrival and no removal since
AttachedAfter(msg, resolved) ==
    IF msg.message = "WM_INPUT_DEVICE_CHANGE" /\ msg.wparam = "GIDC_REMOVAL"
    THEN MapRemove(attached, msg.lparam)
    ELSE IF msg.message = "WM_INPUT_DEVICE_CHANGE" /\ msg.wparam = "GIDC_ARRIVAL" /\ resolved
    THEN MapInsert(attached, msg.lparam, [desc |-> msg.desc, reported |-> FALSE])
    ELSE IF Decodable(msg) /\ msg.raw.hDevice \in DOMAIN attached
    THEN [attached EXCEPT ![msg.raw.hDevice].reported = TRUE]
    ELSE attached

\* start_message_loop: one iteration on a message other than WM_CLOSE
ApiIteration(msg) ==
    /\ pipeline = "api" /\ pc = "wait" /\ hwnd = "open" /\ seq < MaxNotifications
    /\ LET new_devices == EmptyMap
           res == CASE msg.message = "WM_INPUT" -> process_input_message(new_devices, msg)
                    [] msg.message = "WM_INPUT_DEVICE_CHANGE" ->
                          process_input_change_message(new_devices, msg)
                    [] OTHER -> << Ok(None), new_devices >>
           event_res == res[1]
           evt == IF event_res.tag = "Err"
                  THEN Some(Event("Warn", 0, FALSE, << >>))
                  ELSE event_res.val
       IN  /\ devices' = res[2]
           /\ seq' = seq + 1
           /\ attached' = AttachedAfter(msg, event_res.tag = "Ok" /\ IsSome(event_res.val))
           /\ last' = History(msg,
                              IF event_res.tag = "Err" THEN "err"
                              ELSE IF IsSome(event_res.val) THEN "event" ELSE "none",
                              evt, new_devices)
           /\ IF IsSome(evt)
              THEN LoopSend(Value(seq + 1, Unwrap(evt)), "done")
              ELSE /\ UNCHANGED << chan, pending >>
                   /\ pc' = "wait"
    /\ UNCHANGED << call, pipeline, event_buf_size, other_consumer, delivered, hwnd, owner,
                    close_pc >>

\* start_message_loop: WM_CLOSE is taken, the window destroyed, the loop returns Ok
ApiClose ==
    /\ pipeline = "api" /\ pc = "wait" /\ hwnd = "close_posted"
    /\ hwnd' = "destroyed"
    /\ seq' = seq + 1
    /\ last' = History(Msg("WM_CLOSE", "none", 0, DescEmpty, RawNotHid), "none", None, EmptyMap)
    /\ ApiThreadExit(FALSE, Value(seq + 1, Event("Interruption", 0, FALSE, << >>)))
    /\ UNCHANGED << call, pipeline, event_buf_size, other_consumer, devices, delivered, owner,
                    attached, close_pc >>

\* start_message_loop: GetMessageW returns 0 (Ok) or -1 (Err)
ApiWaitReturn(code) ==
    /\ pipeline = "api" /\ pc = "wait" /\ hwnd = "open"
    /\ seq' = seq + 1
    /\ last' = History(Msg("GetMessageW", IF code = 0 THEN "quit" ELSE "fail", 0,
                           DescEmpty, RawNotHid), "none", None, EmptyMap)
    /\ ApiThreadExit(code # 0, Value(seq + 1, Event("Interruption", 0, FALSE, << >>)))
    /\ UNCHANGED << call, pipeline, event_buf_size, other_consumer, devices, delivered, hwnd,
                    owner, attached, close_pc >>

\* start_event_loop: one iteration on a message
ModIteration(msg) ==
    /\ pipeline = "mod" /\ pc = "wait" /\ hwnd = "open" /\ seq < MaxNotifications
    /\ seq' = seq + 1
    /\ IF msg.message = "WM_INPUT"
       THEN \* proc_input_message is unimplemented!(): the thread panics
            /\ pc' = "panicked"
            /\ last' = History(msg, "panic", None, devices)
            /\ UNCHANGED << devices, chan, pending, attached >>
       ELSE LET res == proc_input_change_message(devices, msg) IN
            /\ devices' = res[2]
            /\ attached' = AttachedAfter(msg, res[1].tag = "Ok")
            /\ last' = History(msg, IF res[1].tag = "Ok" THEN "event" ELSE "err",
                               IF res[1].tag = "Ok" THEN Some(res[1].val) ELSE None,
                               devices)
            /\ IF res[1].tag = "Ok"
               THEN LoopSend(Value(seq + 1, res[1].val), "done")
               ELSE /\ UNCHANGED << chan, pending >>
                    /\ pc' = "wait"
    /\ UNCHANGED << call, pipeline, event_buf_size, other_consumer, delivered, hwnd, owner,
                    close_pc >>

\* start_event_loop: GetMessageW returns 0 (Ok), -1 or another negative code
\* (Err); on a destroyed window the wait does not block
ModWaitReturn(code) ==
    /\ pipeline = "mod" /\ pc = "wait"
    /\ hwnd = "destroyed" => code \in {0, -1}
    /\ seq' = seq + 1
    /\ last' = History(Msg("GetMessageW", IF code = 0 THEN "quit" ELSE "fail", 0,
                           DescEmpty, RawNotHid), "none", None, devices)
    /\ ModThreadExit(code # 0, Value(seq + 1, Event("Err", 0, FALSE, << >>)))
    /\ UNCHANGED << call, pipeline, event_buf_size, other_consumer, devices, delivered, hwnd,
                    owner, attached, close_pc >>

\* a blocked send completes once the channel has room
SendUnblock ==
    /\ pc \in {"send", "send_final"} /\ ReceiverAlive /\ HasRoom
    /\ chan' = ChanSend(chan, Unwrap(pending))
    /\ pending' = None
    /\ pc' = IF pc = "send" THEN "wait" ELSE "done"
    /\ UNCHANGED << call, pipeline, event_buf_size, other_consumer, devices, delivered, hwnd,
                    owner, seq, attached, last, close_pc >>

(***************************************************************************)
(* Consumers and the owning handle.                                        *)
(***************************************************************************)
\* Receiver::recv: the oldest value; on a zero-capacity channel the value of
\* the blocked sender is handed over directly
Recv ==
    /\ ReceiverAlive /\ (owner = "running" \/ other_consumer)
    /\ IF chan # << >>
       THEN /\ delivered' = Append(delivered, Head(chan))
            /\ chan' = Tail(chan)
            /\ UNCHANGED << pending, pc >>
       ELSE /\ IsSome(pending)
            /\ delivered' = Append(delivered, Unwrap(pending))
            /\ pending' = None
            /\ pc' = IF pc = "send" THEN "wait" ELSE "done"
            /\ chan' = chan
    /\ UNCHANGED << call, pipeline, event_buf_size, other_consumer, devices, hwnd, owner, seq,
                    attached, last, close_pc >>

\* Drop for Mgr, first half: DestroyWindow, then the join starts
MgrDrop ==
    /\ pipeline = "mod" /\ owner = "running"
    /\ hwnd' = "destroyed"
    /\ owner' = "joining"
    /\ close_pc' = pc
    /\ UNCHANGED << call, pipeline, event_buf_size, other_consumer, pc, devices, chan, pending,
                    delivered, seq, attached, last >>

\* close of the api pipeline: close_message_window posts WM_CLOSE, then the join
ApiCloseRequest ==
    /\ pipeline = "api" /\ owner = "running"
    /\ hwnd' = IF hwnd = "open" THEN "close_posted" ELSE hwnd
    /\ owner' = "joining"
    /\ close_pc' = pc
    /\ UNCHANGED << call, pipeline, event_buf_size, other_consumer, pc, devices, chan, pending,
                    delivered, seq, attached, last >>

\* join returns once the thread has ended; the handle and its Receiver are dropped
JoinReturn ==
    /\ owner = "joining" /\ pc \in {"done", "panicked"}
    /\ owner' = "closed"
    /\ UNCHANGED << call, pipeline, event_buf_size, other_consumer, pc, devices, chan, pending,
                    delivered, hwnd, seq, attached, last, close_pc >>

Producer ==
    \/ \E msg \in ApiMessages : ApiIteration(msg)
    \/ ApiClose
    \/ \E code \in {0, -1} : ApiWaitReturn(code)
    \/ \E msg \in ModMessages : ModIteration(msg)
    \/ \E code \in {0, -1, -2} : ModWaitReturn(code)
    \/ SendUnblock

Owner == MgrDrop \/ ApiCloseRequest \/ JoinReturn

Next == Producer \/ Recv \/ Owner

Spec == Init /\ [][Next]_vars

(***************************************************************************)
(* The pipeline when its handle may also be dropped without close.         *)
(***************************************************************************)
\* the handle of the api pipeline is dropped without close: its Receiver goes
\* and the thread is left running
ApiHandleDropped ==
    /\ pipeline = "api" /\ owner = "running" /\ ~other_consumer
    /\ owner' = "closed"
    /\ UNCHANGED << call, pipeline, event_buf_size, other_consumer, pc, devices, chan, pending,
                    delivered, hwnd, seq, attached, last, close_pc >>

\* a send blocked on a full channel returns Err when the last Receiver goes: the
\* loop returns the error and the thread ends
SendDisconnected ==
    /\ pc \in {"send", "send_final"} /\ ~ReceiverAlive
    /\ pending' = None
    /\ pc' = "done"
    /\ UNCHANGED << call, pipeline, event_buf_size, other_consumer, devices, chan, delivered,
                    hwnd, owner, seq, attached, last, close_pc >>

NextDrop == Next \/ ApiHandleDropped \/ SendDisconnected

SpecDrop == Init /\ [][NextDrop]_vars

(***************************************************************************)
(* The functions of the library examined on their own: the pipeline stays  *)
(* as constructed and `call` holds the inputs and results.                 *)
(***************************************************************************)
pipeline_vars ==
    << pipeline, event_buf_size, other_consumer, pc, devices, chan, pending, delivered,
       hwnd, owner, seq, attached, last, close_pc >>

\* the pipeline as constructed, with no consumer and an unbounded channel
Idle ==
    /\ pipeline = "api" /\ event_buf_size = None /\ other_consumer = FALSE
    /\ pc = "wait" /\ devices = EmptyMap /\ chan = << >> /\ pending = None
    /\ delivered = << >> /\ hwnd = "open" /\ owner = "running" /\ seq = 0
    /\ attached = EmptyMap /\ last = NoLast /\ close_pc = "none"

SymDiff(s, t) == (s \ t) \cup (t \ s)

(***************************************************************************)
(* bits.rs: two bitsets a, b of the integer implementation and two B256    *)
(* bitsets, each next to the flat set of positions it stands for.          *)
(***************************************************************************)
BitsInit ==
    /\ Idle
    /\ call = [ fn |-> "bits", a |-> 0, b |-> 0, fa |-> {}, fb |-> {},
                A |-> B256Default, B |-> B256Default, FA |-> {}, FB |-> {} ]

\* a.set(pos) on both implementations
BitsOpSet(pos) ==
    /\ call' = [call EXCEPT !.a = BitsSet(call.a, pos)[1],
                            !.fa = IF pos < CAP THEN call.fa \cup {pos} ELSE call.fa,
                            !.A = B256Set(call.A, pos)[1],
                            !.FA = IF pos < B256CAP THEN call.FA \cup {pos} ELSE call.FA]
    /\ UNCHANGED pipeline_vars

\* a = a ^ b on both implementations
BitsOpXor ==
    /\ call' = [call EXCEPT !.a = BitsXor(call.a, call.b),
                            !.fa = SymDiff(call.fa, call.fb),
                            !.A = B256Xor(call.A, call.B),
                            !.FA = SymDiff(call.FA, call.FB)]
    /\ UNCHANGED pipeline_vars

\* the two operands change places
BitsOpSwap ==
    /\ call' = [call EXCEPT !.a = call.b, !.b = call.a, !.fa = call.fb, !.fb = call.fa,
                            !.A = call.B, !.B = call.A, !.FA = call.FB, !.FB = call.FA]
    /\ UNCHANGED pipeline_vars

BitsNext ==
    \/ \E pos \in 0..(B256CAP + 1) : BitsOpSet(pos)
    \/ BitsOpXor
    \/ BitsOpSwap

BitsSpec == BitsInit /\ [][BitsNext]_vars

(***************************************************************************)
(* api.rs get_input_event and driver/mod.rs StateDiff::diffs: reports      *)
(* decoded one after the other against one registry entry.                 *)
(***************************************************************************)
\* CAP buttons on data indices 0..CAP-1, then a hat, the X and Y axes, a slider
DescPad ==
    [ sys_ok |-> TRUE, hid_joystick |-> TRUE, max_data_count |-> CAP + 4,
      button_caps |-> << [IsRange |-> TRUE, DataIndex |-> 0, DataIndexMax |-> CAP - 1] >>,
      value_caps |->
        << [ IsRange |-> FALSE, UsagePage |-> HID_USAGE_PAGE_GENERIC,
             Usage |-> HID_USAGE_GENERIC_HATSWITCH, DataIndex |-> CAP,
             LogicalMin |-> 0, LogicalMax |-> 7 ],
           [ IsRange |-> FALSE, UsagePage |-> HID_USAGE_PAGE_GENERIC,
             Usage |-> HID_USAGE_GENERIC_X, DataIndex |-> CAP + 1,
             LogicalMin |-> 0, LogicalMax |-> 255 ],
           [ IsRange |-> FALSE, UsagePage |-> HID_USAGE_PAGE_GENERIC,
             Usage |-> HID_USAGE_GENERIC_Y, DataIndex |-> CAP + 2,
             LogicalMin |-> 0, LogicalMax |-> 255 ],
           [ IsRange |-> FALSE, UsagePage |-> HID_USAGE_PAGE_GENERIC,
             Usage |-> HID_USAGE_GENERIC_SLIDER, DataIndex |-> CAP + 3,
             LogicalMin |-> 0, LogicalMax |-> 255 ] >> ]

\* the HIDP_DATA items of the buttons of `pressed` that are on
RECURSIVE ButtonData(_, _)
ButtonData(pressed, i) ==
    IF i >= CAP THEN << >>
    ELSE (IF i \in pressed THEN << [DataIndex |-> i, RawValue |-> 1, On |-> TRUE] >>
          ELSE << >>)
         \o ButtonData(pressed, i + 1)

\* the HIDP_DATA items of the values: none, the Y axis only, or all four
ValueData(which) ==
    CASE which = "none" -> << >>
      [] which = "y" -> << [DataIndex |-> CAP + 2, RawValue |-> 6, On |-> FALSE] >>
      [] OTHER -> << [DataIndex |-> CAP, RawValue |-> 2, On |-> FALSE],
                     [DataIndex |-> CAP + 1, RawValue |-> 5, On |-> FALSE],
                     [DataIndex |-> CAP + 2, RawValue |-> 6, On |-> FALSE],
                     [DataIndex |-> CAP + 3, RawValue |-> 7, On |-> FALSE] >>

\* one report of device 1
RawPad(pressed, which) ==
    [ read_ok |-> TRUE, hid |-> TRUE, hDevice |-> 1,
      reports |-> << [ok |-> TRUE, data |-> ButtonData(pressed, 0) \o ValueData(which)] >> ]

\* one report of device 1 with one value field only
RawValueAt(di, value) ==
    [ read_ok |-> TRUE, hid |-> TRUE, hDevice |-> 1,
      reports |-> << [ok |-> TRUE,
                      data |-> << [DataIndex |-> di, RawValue |-> value, On |-> FALSE] >>] >> ]

\* one report of device 1 with the hat field of DescPad only
RawHat(code) == RawValueAt(CAP, code)

\* one report of device 1 with two button fields, on or off
RawButtons(di1, on1, di2, on2) ==
    [ read_ok |-> TRUE, hid |-> TRUE, hDevice |-> 1,
      reports |-> << [ok |-> TRUE,
                      data |-> << [DataIndex |-> di1, RawValue |-> 0, On |-> on1],
                                  [DataIndex |-> di2, RawValue |-> 0, On |-> on2] >>] >> ]

\* the fields of a notification, report after report: <<DataIndex, RawValue, On>>
RECURSIVE FieldsOf(_, _)
FieldsOf(reports, i) ==
    IF i > Len(reports) THEN << >>
    ELSE [k \in DOMAIN reports[i].data |->
            << reports[i].data[k].DataIndex, reports[i].data[k].RawValue,
               reports[i].data[k].On >>]
         \o FieldsOf(reports, i + 1)

DecodeInit ==
    /\ Idle
    /\ call = [ fn |-> "decode",
                devices |-> MapInsert(EmptyMap, 1, Unwrap(ApiGetDevice(DescPad).val)[2]),
                prev |-> DeviceObjectStatesDefault,
                fields |-> << >>,
                evt |-> None ]

\* get_input_event on the next report; the registry keeps the decoded state
DecodeStep(raw) ==
    /\ LET res == get_input_event(call.devices, FALSE, raw) IN
          /\ res[1].tag = "Ok"
          /\ call' = [call EXCEPT !.devices = res[2],
                                  !.prev = call.devices[1].obj_states,
                                  !.fields = FieldsOf(raw.reports, 1),
                                  !.evt = res[1].val]
    /\ UNCHANGED pipeline_vars

DecodeNext ==
    \/ \E pressed \in SUBSET (0..(CAP - 1)), which \in {"none", "y", "all"} :
          DecodeStep(RawPad(pressed, which))
    \/ \E code \in 0..MaxHatCode : DecodeStep(RawHat(code))
    \/ \E di1, di2 \in 0..(CAP - 1), on1, on2 \in BOOLEAN :
          DecodeStep(RawButtons(di1, on1, di2, on2))

DecodeSpec == DecodeInit /\ [][DecodeNext]_vars

(***************************************************************************)
(* Capability resolution: api.rs get_device / get_device_cap and mod.rs    *)
(* get_device on one descriptor, grown one capability record at a time.    *)
(***************************************************************************)
\* HIDP_BUTTON_CAPS records: single data indices and ranges, which may repeat
ButtonCapRecords ==
    { [IsRange |-> FALSE, DataIndex |-> d, DataIndexMax |-> d] : d \in 0..MaxDataIndex }
    \cup { [IsRange |-> TRUE, DataIndex |-> r[1], DataIndexMax |-> r[2]] :
             r \in { x \in (0..MaxDataIndex) \X (0..MaxDataIndex) : x[1] <= x[2] } }

\* HIDP_VALUE_CAPS records, as range or single record: the X axis and the
\* slider with the logical range (0, -1) or (0, 255); a hat switch, on the data
\* index of the X axis, with the logical range (0, 7) or (0, 15); a usage of
\* another page, on the data index of the slider
ValueCapRecords ==
    { [ IsRange |-> r, UsagePage |-> HID_USAGE_PAGE_GENERIC, Usage |-> u[1],
        DataIndex |-> u[2], LogicalMin |-> 0, LogicalMax |-> hi ] :
        r \in BOOLEAN,
        u \in { << HID_USAGE_GENERIC_X, MaxDataIndex + 1 >>,
                << HID_USAGE_GENERIC_SLIDER, MaxDataIndex + 2 >> },
        hi \in { -1, 255 } }
    \cup { [ IsRange |-> r, UsagePage |-> HID_USAGE_PAGE_GENERIC,
             Usage |-> HID_USAGE_GENERIC_HATSWITCH, DataIndex |-> MaxDataIndex + 1,
             LogicalMin |-> 0, LogicalMax |-> hi ] :
             r \in BOOLEAN, hi \in { 7, 15 } }
    \cup { [ IsRange |-> r, UsagePage |-> HID_USAGE_PAGE_GENERIC + 1,
             Usage |-> HID_USAGE_GENERIC_X, DataIndex |-> MaxDataIndex + 2,
             LogicalMin |-> 0, LogicalMax |-> 255 ] :
             r \in BOOLEAN }

Resolved(desc) ==
    [ fn |-> "resolve", desc |-> desc,
      api |-> ApiGetDevice(desc), mod |-> ModGetDevice(desc) ]

ResolveInit ==
    /\ Idle
    /\ call = Resolved([ sys_ok |-> TRUE, hid_joystick |-> TRUE,
                         max_data_count |-> MaxDataIndex + 3,
                         button_caps |-> << >>, value_caps |-> << >> ])

\* the descriptor has one more button capability record
ResolveButtonCap(cap) ==
    /\ Len(call.desc.button_caps) + Len(call.desc.value_caps) < MaxCaps
    /\ call' = Resolved([call.desc EXCEPT !.button_caps = Append(@, cap)])
    /\ UNCHANGED pipeline_vars

\* the descriptor has one more value capability record
ResolveValueCap(cap) ==
    /\ Len(call.desc.button_caps) + Len(call.desc.value_caps) < MaxCaps
    /\ call' = Resolved([call.desc EXCEPT !.value_caps = Append(@, cap)])
    /\ UNCHANGED pipeline_vars

ResolveNext ==
    \/ \E cap \in ButtonCapRecords : ResolveButtonCap(cap)
    \/ \E cap \in ValueCapRecords : ResolveValueCap(cap)

ResolveSpec == ResolveInit /\ [][ResolveNext]_vars

(***************************************************************************)
(* Registration: mod.rs register_devices (by Config.dev_type) and api.rs   *)
(* register_events, and the device changes the platform then announces.    *)
(* RIDEV_DEVNOTIFY makes the platform send WM_INPUT_DEVICE_CHANGE for the   *)
(* devices of the registered usages, and for no other device.              *)
(***************************************************************************)
\* the usUsage of the two RAWINPUTDEVICE entries, in the order of the array
devices_opts == << HID_USAGE_GENERIC_JOYSTICK, HID_USAGE_GENERIC_GAMEPAD >>

DeviceTypes == {"Joystick", "Gamepad", "Both"}

\* a faulty register_devices whose Gamepad slice starts at the first entry
register_devicesGamepadFromFirst(typ) ==
    CASE typ = "Joystick" -> SubSeq(devices_opts, 1, 1)
      [] typ = "Gamepad" -> SubSeq(devices_opts, 1, Len(devices_opts))
      [] OTHER -> devices_opts

\* mod.rs: the entries handed to RegisterRawInputDevices
register_devices(typ) ==
    CASE typ = "Joystick" -> SubSeq(devices_opts, 1, 1)
      [] typ = "Gamepad" -> SubSeq(devices_opts, 2, Len(devices_opts))
      [] OTHER -> devices_opts

\* api.rs: the whole array, there is no device filter
register_events == devices_opts

\* the usages of the devices that come and go: joystick, gamepad, and one that
\* is neither
DeviceUsages ==
    { HID_USAGE_GENERIC_JOYSTICK, HID_USAGE_GENERIC_GAMEPAD, HID_USAGE_GENERIC_GAMEPAD + 1 }

\* a device of the generic-desktop page with the given usage, whose descriptor
\* the platform can read or not
DescOfUsage(usage, readable) ==
    [ sys_ok |-> readable,
      hid_joystick |-> usage \in { HID_USAGE_GENERIC_JOYSTICK, HID_USAGE_GENERIC_GAMEPAD },
      usUsage |-> usage,
      max_data_count |-> DescTwoButtonsX.max_data_count,
      button_caps |-> DescTwoButtonsX.button_caps,
      value_caps |-> DescTwoButtonsX.value_caps ]

\* start(config), or the api loop, right after registration
Registered(loop, typ) ==
    [ fn |-> "register", loop |-> loop, dev_type |-> typ,
      registered |-> IF loop = "mod" THEN register_devices(typ) ELSE register_events,
      devices |-> EmptyMap,
      usages |-> EmptyMap,       \* history: the usage of each announced identity
      evt |-> << >> ]            \* the last event: <<type, id>>

RegisterInit ==
    /\ Idle
    /\ \/ \E typ \in DeviceTypes : call = Registered("mod", typ)
       \/ call = Registered("api", "none")

\* the handler of the loop on one device change; <<result, devices afterwards>>
RegisterChange(msg) ==
    IF call.loop = "mod"
    THEN LET res == proc_input_change_message(call.devices, msg) IN
         << IF res[1].tag = "Ok" THEN << res[1].val.type, res[1].val.id >> ELSE << >>,
            res[2] >>
    ELSE LET res == process_input_change_message(call.devices, msg) IN
         << IF res[1].tag = "Ok" /\ IsSome(res[1].val)
            THEN << Unwrap(res[1].val).type, Unwrap(res[1].val).id >> ELSE << >>,
            res[2] >>

\* a device of a registered usage arrives
RegisterArrival(ident, usage, readable) ==
    /\ \E i \in DOMAIN call.registered : call.registered[i] = usage
    /\ LET res == RegisterChange(Msg("WM_INPUT_DEVICE_CHANGE", "GIDC_ARRIVAL", ident,
                                     DescOfUsage(usage, readable), RawNotHid))
       IN  call' = [call EXCEPT !.devices = res[2],
                                !.usages = MapInsert(call.usages, ident, usage),
                                !.evt = res[1]]
    /\ UNCHANGED pipeline_vars

\* an announced device goes
RegisterRemoval(ident) ==
    /\ ident \in DOMAIN call.usages
    /\ LET res == RegisterChange(Msg("WM_INPUT_DEVICE_CHANGE", "GIDC_REMOVAL", ident,
                                     DescOfUsage(call.usages[ident], TRUE), RawNotHid))
       IN  call' = [call EXCEPT !.devices = res[2],
                                !.usages = MapRemove(call.usages, ident),
                                !.evt = res[1]]
    /\ UNCHANGED pipeline_vars

RegisterNext ==
    \/ \E ident \in Idents, usage \in DeviceUsages, readable \in BOOLEAN :
          RegisterArrival(ident, usage, readable)
    \/ \E ident \in Idents : RegisterRemoval(ident)

RegisterSpec == RegisterInit /\ [][RegisterNext]_vars

(***************************************************************************)
(* Notifications handled against a registry that is kept from one to the   *)
(* next: process_input_change_message and process_input_message (api.rs)   *)
(* with the conversion of an error to a Warn, proc_input_change_message    *)
(* (mod.rs). A report is <<ok, fields>>, a field <<DataIndex, RawValue,    *)
(* On>>.                                                                   *)
(***************************************************************************)
\* the reports of DescPad devices: button 0 and the X axis; button 1, the hat,
\* a field no capability names (on, between mapped fields) and the slider;
\* button 1, the X axis again and the hat; a report that HidP_GetData rejects
PadReports ==
    { << TRUE, << << 0, 1, TRUE >>, << CAP + 1, 5, FALSE >> >> >>,
      << TRUE, << << 1, 1, TRUE >>, << CAP, 2, FALSE >>, << CAP + 4, 9, TRUE >>,
                  << CAP + 3, 7, FALSE >> >> >>,
      << TRUE, << << 1, 1, TRUE >>, << CAP + 1, 6, FALSE >>, << CAP, 4, FALSE >> >> >>,
      << FALSE, << >> >> }

\* the reports of the second device: button 1 on, or nothing
SmallReports ==
    { << TRUE, << << 1, 1, TRUE >> >> >>, << TRUE, << >> >> }

\* the notifications of 1..MaxReports reports drawn from `reports`
NotificationsOf(reports) ==
    UNION { [1..n -> reports] : n \in 1..MaxReports }

\* the RAWINPUT of a notification of device hdev
RawOf(hdev, reports) ==
    [ read_ok |-> TRUE, hid |-> TRUE, hDevice |-> hdev,
      reports |-> [i \in DOMAIN reports |->
                      [ ok |-> reports[i][1],
                        data |-> [k \in DOMAIN reports[i][2] |->
                                    [ DataIndex |-> reports[i][2][k][1],
                                      RawValue |-> reports[i][2][k][2],
                                      On |-> reports[i][2][k][3] ]] ]] ]

\* the registry is empty when a loop starts; the handlers are given the same
\* registry from one notification to the next
NotifyInit ==
    /\ Idle
    /\ \E loop \in {"api", "mod"} :
          call = [ fn |-> "notify", loop |-> loop, devices |-> EmptyMap, before |-> EmptyMap,
                   op |-> "none", hdev |-> 0, reports |-> << >>, tag |-> "Ok",
                   evts |-> << >> ]

\* process_input_change_message on the arrival of `ident`, and the event that
\* start_message_loop sends for its result
NotifyApiArrival(ident, desc) ==
    /\ call.loop = "api"
    /\ LET res == process_input_change_message(
                      call.devices,
                      Msg("WM_INPUT_DEVICE_CHANGE", "GIDC_ARRIVAL", ident, desc, RawNotHid))
           event_res == res[1]
           evt == IF event_res.tag = "Err"
                  THEN Some(Event("Warn", 0, FALSE, << >>))
                  ELSE event_res.val
       IN  call' = [call EXCEPT !.devices = res[2], !.before = call.devices,
                                !.op = "arrival", !.hdev = ident, !.reports = << >>,
                                !.tag = event_res.tag,
                                !.evts = IF IsSome(evt) THEN << Unwrap(evt) >> ELSE << >>]
    /\ UNCHANGED pipeline_vars

\* proc_input_change_message on the arrival of `ident`; its error ends the loop
\* of start_event_loop and is left to the pipeline
NotifyModArrival(ident, desc) ==
    /\ call.loop = "mod"
    /\ LET res == proc_input_change_message(
                      call.devices,
                      Msg("WM_INPUT_DEVICE_CHANGE", "GIDC_ARRIVAL", ident, desc, RawNotHid))
       IN  /\ res[1].tag = "Ok"
           /\ call' = [call EXCEPT !.devices = res[2], !.before = call.devices,
                                   !.op = "arrival", !.hdev = ident, !.reports = << >>,
                                   !.tag = "Ok", !.evts = << res[1].val >>]
    /\ UNCHANGED pipeline_vars

\* process_input_message on a WM_INPUT of device hdev, and the event that
\* start_message_loop sends for its result
NotifyData(hdev, reports) ==
    /\ call.loop = "api"
    /\ LET res == process_input_message(
                      call.devices,
                      Msg("WM_INPUT", "RIM_INPUT", 0, DescEmpty, RawOf(hdev, reports)))
           event_res == res[1]
           evt == IF event_res.tag = "Err"
                  THEN Some(Event("Warn", 0, FALSE, << >>))
                  ELSE event_res.val
       IN  call' = [call EXCEPT !.devices = res[2], !.before = call.devices,
                                !.op = "data", !.hdev = hdev, !.reports = reports,
                                !.tag = event_res.tag,
                                !.evts = IF IsSome(evt) THEN << Unwrap(evt) >> ELSE << >>]
    /\ UNCHANGED pipeline_vars

\* identity 1 arrives as a pad or as the two-button device, identity 2 as the
\* two-button device
NotifyNext ==
    \/ \E desc \in {DescPad, DescTwoButtonsX} : NotifyApiArrival(1, desc)
    \/ NotifyApiArrival(2, DescTwoButtonsX)
    \/ \E desc \in {DescPad, DescTwoButtonsX} : NotifyModArrival(1, desc)
    \/ NotifyModArrival(2, DescTwoButtonsX)
    \/ \E reports \in NotificationsOf(PadReports) : NotifyData(1, reports)
    \/ \E reports \in NotificationsOf(SmallReports) : NotifyData(2, reports)

NotifySpec == NotifyInit /\ [][NotifyNext]_vars

(***************************************************************************)
(* Properties.                                                             *)
(***************************************************************************)
\* every value sent so far, in channel order: received, waiting, held by a
\* blocked send
Stream == delivered \o chan \o pending

\* how many values the notification numbered n has put on the channel
CountFrom(n) == Cardinality({ i \in DOMAIN Stream : Stream[i].n = n })

IsArrival(msg) == msg.message = "WM_INPUT_DEVICE_CHANGE" /\ msg.wparam = "GIDC_ARRIVAL"
IsRemoval(msg) == msg.message = "WM_INPUT_DEVICE_CHANGE" /\ msg.wparam = "GIDC_REMOVAL"
IsWaitFailure(msg) == msg.message = "GetMessageW" /\ msg.wparam = "fail"
\* a WM_INPUT carrying readable HID raw input
IsData(msg) ==
    /\ msg.message = "WM_INPUT" /\ msg.wparam \in {"RIM_INPUT", "RIM_INPUTSINK"}
    /\ msg.raw.read_ok /\ msg.raw.hid

LastEventIs(type) == IsSome(last.evt) /\ Unwrap(last.evt).type = type
LoopContinues == pc \in {"wait", "send"}

\* the button ordinals a raw input reports as on, for a device resolved from desc
PressedOrdinals(desc, raw) ==
    LET mapping == ApiButtonCaps(EmptyMap, desc.button_caps, 1) IN
    { mapping[raw.reports[r].data[k].DataIndex].a :
        << r, k >> \in { rk \in (DOMAIN raw.reports) \X (0..3) :
                          /\ rk[2] \in DOMAIN raw.reports[rk[1]].data
                          /\ raw.reports[rk[1]].data[rk[2]].On
                          /\ raw.reports[rk[1]].data[rk[2]].DataIndex \in DOMAIN mapping } }

\* C1: between a resolved Arrival(D) and the next Removal(D), D stays in the
\* producer's registry, and every Data(D) in that window yields a state event
\* for D, never the "device not found" Warning.
C1_RegistryPersists ==
    /\ \A d \in DOMAIN attached : d \in DOMAIN devices
    /\ (Decodable(last.msg) /\ IsSome(last.att)) =>
            /\ LastEventIs("StateDiff")
            /\ Unwrap(last.evt).id = last.msg.raw.hDevice

\* C2: the first Data(D) after a resolved Arrival(D) is diffed against the
\* all-released default: exactly one Button(i, Pressed) diff for each button i
\* the report presses, and no other button diff.
C2_FirstReportDiffs ==
    (Decodable(last.msg) /\ IsSome(last.att) /\ ~Unwrap(last.att).reported) =>
        /\ LastEventIs("StateDiff")
        /\ LET ds == diffs(Unwrap(last.evt).body)
               pressed == PressedOrdinals(Unwrap(last.att).desc, last.msg.raw)
           IN  /\ \A i \in 0..(Len(J_BUTTONS) - 1) :
                     Cardinality({ k \in DOMAIN ds : /\ ds[k].kind = "Button"
                                                     /\ ds[k].ident = J_BUTTONS[i + 1] })
                        = (IF i \in pressed THEN 1 ELSE 0)
               /\ \A k \in DOMAIN ds : ds[k].kind = "Button" => ds[k].state = "Pressed"

\* C3: the values reach the channel, and the consumers, in the order in which
\* the producer took the notifications they come from: none is reordered, and
\* the event of the last notification carries that notification's number.
C3_EventsInNotificationOrder ==
    /\ \A i, j \in DOMAIN Stream : i < j => Stream[i].n < Stream[j].n
    /\ \A i \in DOMAIN Stream : Stream[i].n <= seq
    /\ (IsSome(last.evt) /\ LoopContinues) =>
            \E i \in DOMAIN Stream : Stream[i].n = seq /\ Stream[i].evt = Unwrap(last.evt)

\* a consumer has received Attached(d), then the event of a later notification,
\* then Deattached(d)
C3_Witness ==
    \E i, j, k \in DOMAIN delivered :
        /\ i < j /\ j < k
        /\ delivered[i].evt.type = "Attached"
        /\ delivered[j].evt.type \in {"Warn", "StateDiff"}
        /\ delivered[k].evt.type = "Deattached"
        /\ delivered[k].evt.id = delivered[i].evt.id

\* C4: a Data notification for an identity with no registry entry yields
\* exactly one Warning, leaves the registry unchanged, and the loop goes on.
C4_UnknownDataWarns ==
    (IsData(last.msg) /\ last.msg.raw.hDevice \notin DOMAIN last.before) =>
        /\ last.outcome = "err"
        /\ LastEventIs("Warn")
        /\ CountFrom(seq) = 1
        /\ devices = last.before
        /\ LoopContinues

\* C5: a Removal(D) of a registered D removes D from the registry and emits
\* Deattached(D); until a new Arrival(D), D is absent from the registry.
C5_RemovalRemoves ==
    /\ (IsRemoval(last.msg) /\ last.msg.lparam \in DOMAIN last.before) =>
            /\ last.msg.lparam \notin DOMAIN devices
            /\ LastEventIs("Deattached")
            /\ Unwrap(last.evt).id = last.msg.lparam
    /\ \A d \in DOMAIN devices : d \in DOMAIN attached

\* C6: a Removal of an identity that is not in the registry does not stop the
\* producer, yields exactly one Deattached for that identity, and leaves the
\* registry as it was.
C6_RemovalOfUnknown ==
    (IsRemoval(last.msg) /\ last.msg.lparam \notin DOMAIN last.before) =>
        /\ last.outcome = "event"
        /\ LastEventIs("Deattached")
        /\ Unwrap(last.evt).id = last.msg.lparam
        /\ CountFrom(seq) = 1
        /\ devices = last.before
        /\ LoopContinues

\* the Deattached of a removal of an unknown identity has been received while
\* another device is registered
C6_Witness ==
    /\ IsRemoval(last.msg) /\ last.msg.lparam \notin DOMAIN last.before
    /\ DOMAIN last.before # {}
    /\ \E i \in DOMAIN delivered :
          delivered[i].n = seq /\ delivered[i].evt.type = "Deattached"

\* C7: a decode or capability-resolution error on one notification is
\* published on the channel as one Warning, and the loop continues.
C7_ErrorsBecomeWarnings ==
    (/\ last.outcome = "err"
     /\ \/ IsArrival(last.msg) /\ ~last.msg.desc.sys_ok
        \/ last.msg.message = "WM_INPUT") =>
        /\ LastEventIs("Warn")
        /\ CountFrom(seq) = 1
        /\ LoopContinues

\* the arrival of a device that is HID but neither joystick nor gamepad
ArrivalUnsupported(msg) ==
    IsArrival(msg) /\ msg.desc.sys_ok /\ ~msg.desc.hid_joystick

\* C8 (as stated): an Arrival that does not resolve, because the device is of an
\* unsupported type or its descriptor is rejected, pushes no event of any kind
\* and inserts no registry entry.
C8_RejectedArrivalSilent ==
    (IsArrival(last.msg) /\ last.outcome # "event") =>
        /\ ~IsSome(last.evt)
        /\ CountFrom(seq) = 0
        /\ devices = last.before

\* C8 (amended): an Arrival that does not resolve inserts no registry entry and
\* yields no Attached; it pushes no event at all when the device is of an
\* unsupported type or the resolver turns the descriptor down without an error
\* (an unreadable descriptor is an error, which start_message_loop publishes).
C8_RejectedArrivalNoEntry ==
    (IsArrival(last.msg) /\ last.outcome # "event") =>
        /\ devices = last.before
        /\ ~LastEventIs("Attached")
        /\ \A i \in DOMAIN Stream : Stream[i].n = seq => Stream[i].evt.type # "Attached"
        /\ (ArrivalUnsupported(last.msg) \/ last.outcome = "none") =>
                /\ ~IsSome(last.evt)
                /\ CountFrom(seq) = 0

\* an arrival of an unsupported device was dropped after earlier events were
\* received
C8_Witness ==
    /\ ArrivalUnsupported(last.msg)
    /\ last.outcome # "event"
    /\ Len(delivered) > 0

IsTerminal(v) == v.evt.type \in {"Err", "Interruption"}

\* C9: when the wait fails the producer publishes one terminal value, leaves the
\* loop and drops its Sender; no value follows the terminal one.
C9_WaitFailureTerminal ==
    /\ \A i \in DOMAIN Stream : IsTerminal(Stream[i]) => i = Len(Stream)
    /\ IsWaitFailure(last.msg) =>
            /\ pc \in {"send_final", "done"}
            /\ Len(Stream) > 0
            /\ IsTerminal(Stream[Len(Stream)])
            /\ Stream[Len(Stream)].n = seq
            /\ CountFrom(seq) = 1
            /\ pc = "done" => pending = None

\* after a wait failure the consumers have received the earlier event and then
\* the terminal value, and the channel is empty with its Sender dropped
C9_Witness ==
    /\ IsWaitFailure(last.msg)
    /\ Len(delivered) >= 2
    /\ IsTerminal(delivered[Len(delivered)])
    /\ chan = << >> /\ pc = "done"

\* C10: a close called while the producer waits for the next notification does
\* not hang: as long as the close has not returned, something can still run.
C10_CloseWhileWaitingReturns ==
    (owner = "joining" /\ close_pc = "wait") => ENABLED Next

\* C11: dropping the Mgr returns from every state of the pipeline, the one
\* included where the channel is bounded and full and the producer is blocked in
\* send: once the drop has begun other than during a wait, something can still
\* run until the join has returned.
C11_CloseAlwaysReturns ==
    (pipeline = "mod" /\ owner = "joining" /\ close_pc # "wait") => ENABLED Next

C12_Bounded ==
    /\ IsSome(event_buf_size) => Len(chan) <= Unwrap(event_buf_size)
    /\ ~IsSome(event_buf_size) => (pending = None /\ pc \notin {"send", "send_final"})
    /\ (pc \in {"send", "send_final"}) <=> IsSome(pending)
    /\ \A k \in 1..seq : CountFrom(k) <= 1
    /\ (IsSome(last.evt) /\ pc \in {"wait", "send"}) =>
            /\ Len(Stream) > 0
            /\ Stream[Len(Stream)] = Value(seq, Unwrap(last.evt))

\* no step drops or overwrites a value: the stream of sent values only grows at
\* its end, a consumer takes the oldest value, and a send blocks only on a
\* full bounded channel
C12_Step ==
    /\ \/ Stream' = Stream
       \/ /\ Len(Stream') = Len(Stream) + 1
          /\ SubSeq(Stream', 1, Len(Stream)) = Stream
    /\ \/ delivered' = delivered
       \/ /\ Len(Stream) > Len(delivered)
          /\ delivered' = SubSeq(Stream, 1, Len(delivered) + 1)
    /\ (pending = None /\ pending' # None) =>
            /\ IsSome(event_buf_size)
            /\ Len(chan') = Unwrap(event_buf_size)

\* C12: with event_buf_size = Some(n) at most n values wait in the channel and
\* none is dropped or overwritten: a producer that finds the channel full holds
\* its value until a consumer has made room; with None the send never blocks.
C12_Backpressure == []C12_Bounded /\ [][C12_Step]_vars

\* a bounded channel of size >= 1 is full, the producer is blocked in send and a
\* consumer has already taken a value
C12_Witness ==
    /\ IsSome(event_buf_size) /\ Unwrap(event_buf_size) >= 1
    /\ Len(chan) = Unwrap(event_buf_size)
    /\ pc = "send" /\ IsSome(pending)
    /\ Len(delivered) >= 1

\* C13: when no Receiver is left at the moment the producer publishes an event,
\* the event is not sent, the loop returns and the thread ends: the producer
\* takes no further notification.
C13_BrokenChannelEndsLoop ==
    /\ (owner = "closed" /\ IsSome(last.evt) /\ CountFrom(seq) = 0) => pc = "done"
    /\ pc = "done" => (pending = None /\ ~ENABLED Producer)

\* the handle was dropped without close after a consumer had received a value,
\* and the next event found the channel disconnected
C13_Witness ==
    /\ owner = "closed" /\ close_pc = "none"
    /\ IsSome(last.evt) /\ CountFrom(seq) = 0
    /\ Len(delivered) >= 1
    /\ pc = "done"

\* the positions a bitset of the integer implementation holds
BitsOnes(b) == { i \in 0..(CAP - 1) : BitsBit(b, i) = Some(TRUE) }
B256Ones(b) == { i \in 0..(B256CAP - 1) : B256Bit(b, i) = Some(TRUE) }

\* C16: for every implementation and all bitsets a, b: bit i of a ^ b is set
\* exactly when bit i of a and bit i of b differ, and a ^ a has no bit set.
C16_XorLaw ==
    /\ \A i \in 0..(CAP - 1) :
          BitsBit(BitsXor(call.a, call.b), i)
             = Some(Unwrap(BitsBit(call.a, i)) # Unwrap(BitsBit(call.b, i)))
    /\ BitsCountOnes(BitsXor(call.a, call.a)) = 0
    /\ \A i \in 0..(B256CAP - 1) :
          B256Bit(B256Xor(call.A, call.B), i)
             = Some(Unwrap(B256Bit(call.A, i)) # Unwrap(B256Bit(call.B, i)))
    /\ B256CountOnes(B256Xor(call.A, call.A)) = 0

\* two operands that share a bit and differ in another, on both implementations
C16_Witness ==
    /\ BitsOnes(call.a) \cap BitsOnes(call.b) # {}
    /\ BitsOnes(call.a) \ BitsOnes(call.b) # {}
    /\ BitsOnes(call.b) \ BitsOnes(call.a) # {}
    /\ B256Ones(call.A) \cap B256Ones(call.B) # {}
    /\ \E i \in B256Ones(call.A) \ B256Ones(call.B) : i >= LimbCap
    /\ \E i \in B256Ones(call.B) \ B256Ones(call.A) : i < LimbCap

\* C17: bit(pos) is None exactly when pos >= CAP; set(pos) returns true exactly
\* when pos < CAP; a successful set makes bit(pos) Some(true) and changes no
\* other bit; a refused set changes nothing; count_ones is the number of set bits.
C17_BitSetCount ==
    /\ \A pos \in 0..(CAP + 1) :
          /\ (BitsBit(call.a, pos) = None) <=> (pos >= CAP)
          /\ BitsSet(call.a, pos)[2] <=> (pos < CAP)
          /\ pos < CAP =>
                /\ BitsBit(BitsSet(call.a, pos)[1], pos) = Some(TRUE)
                /\ \A q \in (0..(CAP - 1)) \ {pos} :
                      BitsBit(BitsSet(call.a, pos)[1], q) = BitsBit(call.a, q)
          /\ pos >= CAP => BitsSet(call.a, pos)[1] = call.a
    /\ BitsCountOnes(call.a) = Cardinality(BitsOnes(call.a))
    /\ \A pos \in 0..(B256CAP + 1) :
          /\ (B256Bit(call.A, pos) = None) <=> (pos >= B256CAP)
          /\ B256Set(call.A, pos)[2] <=> (pos < B256CAP)
          /\ pos < B256CAP =>
                /\ B256Bit(B256Set(call.A, pos)[1], pos) = Some(TRUE)
                /\ \A q \in (0..(B256CAP - 1)) \ {pos} :
                      B256Bit(B256Set(call.A, pos)[1], q) = B256Bit(call.A, q)
          /\ pos >= B256CAP => B256Set(call.A, pos)[1] = call.A
    /\ B256CountOnes(call.A) = Cardinality(B256Ones(call.A))

\* bitsets that hold some positions and lack others, on both implementations
C17_Witness ==
    /\ Cardinality(BitsOnes(call.a)) = CAP - 1
    /\ Cardinality(B256Ones(call.A)) = B256CAP - 1

\* C18: under any sequence of set, xor, bit and count_ones a B256 is the flat
\* set of positions 0..255 it stands for: bit(pos) tells membership,
\* count_ones the size, xor the symmetric difference, and no position aliases
\* another, across the limb boundary included.
C18_B256IsFlatSet ==
    /\ B256Ones(call.A) = call.FA
    /\ B256Ones(call.B) = call.FB
    /\ \A pos \in 0..(B256CAP + 1) :
          B256Bit(call.A, pos) = IF pos < B256CAP THEN Some(pos \in call.FA) ELSE None
    /\ B256CountOnes(call.A) = Cardinality(call.FA)
    /\ B256Ones(B256Xor(call.A, call.B)) = SymDiff(call.FA, call.FB)
    /\ \A k \in 1..2 : call.A[k] < Pow2(LimbCap)

\* the positions on both sides of the limb boundary are set in one operand and
\* the other holds a different, non-empty set
C18_Witness ==
    /\ {LimbCap - 1, LimbCap} \subseteq call.FA
    /\ 0 \notin call.FA
    /\ call.FB # {} /\ call.FB # call.FA

\* the ObjectDiff list of the last decoded report
LastDiffs == diffs(Unwrap(call.evt).body)

KindRank(kind) ==
    CASE kind = "DPad" -> 0 [] kind = "Button" -> 1 [] kind = "Axis" -> 2 [] OTHER -> 3

\* the place of an identity in the profile
ButtonIndex(ident) == CHOOSE i \in 1..Len(J_BUTTONS) : J_BUTTONS[i] = ident
AxisIndex(ident) == CHOOSE i \in 0..(AxisLimit - 1) : J_AXIS[i] = Some(ident)

\* C14: the list of diffs is ordered: the D-pad diff, then the Button diffs in
\* the profile's button order, then the Axis diffs in the profile's axis order,
\* then the Slider diff; no earlier kind follows a later one.
C14_DiffOrder ==
    IsSome(call.evt) =>
        \A i, j \in DOMAIN LastDiffs : i < j =>
            /\ KindRank(LastDiffs[i].kind) <= KindRank(LastDiffs[j].kind)
            /\ (LastDiffs[i].kind = "DPad" \/ LastDiffs[i].kind = "Slider") =>
                    LastDiffs[i].kind # LastDiffs[j].kind
            /\ (LastDiffs[i].kind = "Button" /\ LastDiffs[j].kind = "Button") =>
                    ButtonIndex(LastDiffs[i].ident) < ButtonIndex(LastDiffs[j].ident)
            /\ (LastDiffs[i].kind = "Axis" /\ LastDiffs[j].kind = "Axis") =>
                    AxisIndex(LastDiffs[i].ident) < AxisIndex(LastDiffs[j].ident)

\* a list with the D-pad, two buttons, two axes and the slider
C14_Witness ==
    /\ IsSome(call.evt)
    /\ \E i \in DOMAIN LastDiffs : LastDiffs[i].kind = "DPad"
    /\ Cardinality({ i \in DOMAIN LastDiffs : LastDiffs[i].kind = "Button" }) >= 2
    /\ Cardinality({ i \in DOMAIN LastDiffs : LastDiffs[i].kind = "Axis" }) >= 2
    /\ \E i \in DOMAIN LastDiffs : LastDiffs[i].kind = "Slider"

\* the Button diffs of the last report for ordinal i (an ordinal the profile does
\* not name has no identity and so no diff)
ButtonDiffsFor(i) ==
    IF i < Len(J_BUTTONS)
    THEN { k \in DOMAIN LastDiffs : /\ LastDiffs[k].kind = "Button"
                                    /\ LastDiffs[k].ident = J_BUTTONS[i + 1] }
    ELSE {}

\* the ordinals whose bit differs between the previous and the current state
ChangedOrdinals == SymDiff(BitsOnes(call.prev.buttons),
                           BitsOnes(call.devices[1].obj_states.buttons))

\* what the claim says of the ordinals of `ordinals`
ButtonDiffsMatch(ordinals) ==
    /\ \A i \in ordinals :
          /\ Cardinality(ButtonDiffsFor(i)) = (IF i \in ChangedOrdinals THEN 1 ELSE 0)
          /\ \A k \in ButtonDiffsFor(i) :
                (LastDiffs[k].state = "Pressed")
                    <=> (i \in BitsOnes(call.devices[1].obj_states.buttons))
    /\ Cardinality({ k \in DOMAIN LastDiffs : LastDiffs[k].kind = "Button" })
          = Cardinality(ChangedOrdinals \cap ordinals)

\* C15 (as stated): for every button ordinal i of the device, exactly one Button
\* diff for i is emitted iff bit i of xor(prev, curr) is set, its state is
\* Pressed iff bit i of curr is set, and no diff for an unchanged ordinal.
C15_ButtonDiffsAllOrdinals ==
    IsSome(call.evt) =>
        ButtonDiffsMatch(0..(call.devices[1].cap.buttons_num - 1))

\* C15 (amended): the same for every button ordinal that the profile declares;
\* a change of an ordinal the profile does not declare emits no diff.
C15_ButtonDiffsProfileOrdinals ==
    IsSome(call.evt) =>
        /\ ButtonDiffsMatch({ i \in 0..(call.devices[1].cap.buttons_num - 1) :
                                i < Len(J_BUTTONS) })
        /\ \A i \in 0..(call.devices[1].cap.buttons_num - 1) :
              i >= Len(J_BUTTONS) => ButtonDiffsFor(i) = {}

\* between two decoded states one declared button is released, another is
\* pressed, and a button the profile does not declare changes as well
C15_Witness ==
    /\ IsSome(call.evt)
    /\ \E i \in ChangedOrdinals : /\ i < Len(J_BUTTONS)
                                  /\ i \in BitsOnes(call.prev.buttons)
    /\ \E i \in ChangedOrdinals : /\ i < Len(J_BUTTONS)
                                  /\ i \notin BitsOnes(call.prev.buttons)
    /\ \E i \in ChangedOrdinals : i >= Len(J_BUTTONS)

\* the field (data) indices that a mapping resolves to a button
ButtonFields(mapping) == { d \in DOMAIN mapping : mapping[d].kind = "Button" }

\* the data indices of a list of button capability records, in encounter order
RECURSIVE Encounter(_, _)
Encounter(caps, i) ==
    IF i > Len(caps) THEN << >>
    ELSE [k \in 1..(caps[i].DataIndexMax - caps[i].DataIndex + 1) |-> caps[i].DataIndex + k - 1]
         \o Encounter(caps, i + 1)

FirstAt(enc, d) == CHOOSE k \in DOMAIN enc : enc[k] = d /\ \A j \in 1..(k - 1) : enc[j] # d

ButtonOrdinalsDense(mapping, button_count, enc) ==
    /\ { mapping[d].a : d \in ButtonFields(mapping) } = 0..(button_count - 1)
    /\ \A d1, d2 \in ButtonFields(mapping) : mapping[d1].a = mapping[d2].a => d1 = d2
    /\ \A d1, d2 \in ButtonFields(mapping) :
          FirstAt(enc, d1) < FirstAt(enc, d2) => mapping[d1].a < mapping[d2].a

\* C19: for any sequence of button capability records, repeated field indices
\* included, the Button ordinals of the resolved mapping are exactly
\* 0..button_count, without a gap, no ordinal shared by two field indices,
\* assigned in encounter order; in both resolvers.
C19_ButtonOrdinalsDense ==
    call.fn = "resolve" =>
        /\ (call.api.tag = "Ok" /\ IsSome(call.api.val)) =>
              ButtonOrdinalsDense(Unwrap(call.api.val)[2].cap.mapping,
                                  Unwrap(call.api.val)[2].cap.buttons_num,
                                  Encounter(call.desc.button_caps, 1))
        /\ call.mod.tag = "Ok" =>
              ButtonOrdinalsDense(call.mod.val[1].mapping,
                                  call.mod.val[2].button_count,
                                  Encounter(call.desc.button_caps, 1))

\* the range the claim publishes for a descriptor range
NormRange(range) == IF range = << 0, -1 >> THEN << 0, U16Max >> ELSE range

LogicalRange(cap) == << cap.LogicalMin, cap.LogicalMax >>

\* some value capability of the descriptor has this published range
FromDescriptor(range) ==
    \E j \in DOMAIN call.desc.value_caps : NormRange(LogicalRange(call.desc.value_caps[j])) = range

\* C20: every axis range and every slider range published at attach equals the
\* descriptor's (logical_min, logical_max), a descriptor range of (0, -1) being
\* published as (0, 65535); in both resolvers.
C20_RangesNormalised ==
    call.fn = "resolve" =>
        /\ (call.api.tag = "Ok" /\ IsSome(call.api.val)) =>
              LET info == Unwrap(call.api.val)[1]
                  cap == Unwrap(call.api.val)[2].cap
              IN  /\ \A i \in 0..(AxisLimit - 1) :
                        IsSome(cap.axis_caps[i]) =>
                            info.axis[i] = Some(NormRange(LogicalRange(Unwrap(cap.axis_caps[i]))))
                  /\ IsSome(cap.slider) =>
                        info.slider = Some(NormRange(LogicalRange(Unwrap(cap.slider))))
        /\ call.mod.tag = "Ok" =>
              /\ \A k \in DOMAIN call.mod.val[2].axis : FromDescriptor(call.mod.val[2].axis[k][2])
              /\ \A k \in DOMAIN call.mod.val[2].sliders : FromDescriptor(call.mod.val[2].sliders[k])

\* the decoded state of device 1 and the mapping it was decoded with
Decoded == call.devices[1].obj_states
DecodeMapping == call.devices[1].cap.mapping

\* the fields of the last notification that the mapping resolves to (kind, a)
FieldsFor(kind, a) ==
    { k \in DOMAIN call.fields :
        /\ call.fields[k][1] \in DOMAIN DecodeMapping
        /\ DecodeMapping[call.fields[k][1]].kind = kind
        /\ DecodeMapping[call.fields[k][1]].a = a }

LastOf(fields) == CHOOSE k \in fields : \A j \in fields : j <= k

\* the direction of a hat raw code, clockwise from Up
HatState(code) ==
    IF code \in 0..7
    THEN << "Up", "UpRight", "Right", "DownRight", "Down", "DownLeft", "Left", "UpLeft" >>[code + 1]
    ELSE "Null"

\* C21: a hat field's raw code decodes as 0 Up, 1 UpRight, 2 Right, 3 DownRight,
\* 4 Down, 5 DownLeft, 6 Left, 7 UpLeft, and every other raw code as Null.
C21_HatCodeTable ==
    (call.fn = "decode" /\ IsSome(call.evt) /\ FieldsFor("DPad", 0) # {}) =>
        /\ Decoded.dpad = Some(HatState(call.fields[LastOf(FieldsFor("DPad", 0))][2]))
        /\ Unwrap(call.evt).body.dpad = Decoded.dpad

\* a code above 7 has decoded to Null right after a direction was decoded
C21_Witness ==
    /\ call.fn = "decode" /\ IsSome(call.evt)
    /\ call.prev.dpad = Some("Down")
    /\ FieldsFor("DPad", 0) # {}
    /\ call.fields[LastOf(FieldsFor("DPad", 0))][2] > 7
    /\ Decoded.dpad = Some("Null")

\* the value the last field of (kind, a) carries, None when no field names it
LastValue(kind, a) ==
    IF FieldsFor(kind, a) = {} THEN None
    ELSE Some(call.fields[LastOf(FieldsFor(kind, a))][2])

\* the snapshot holds what the fields of the notification say and nothing else
C29_Snapshot ==
    (call.fn = "decode" /\ IsSome(call.evt)) =>
        /\ \A o \in 0..(CAP - 1) :
              /\ (\A k \in FieldsFor("Button", o) : ~call.fields[k][3])
                    => o \notin BitsOnes(Decoded.buttons)
              /\ (FieldsFor("Button", o) # {} /\ \A k \in FieldsFor("Button", o) : call.fields[k][3])
                    => o \in BitsOnes(Decoded.buttons)
        /\ Decoded.dpad = (IF FieldsFor("DPad", 0) = {} THEN None
                           ELSE Some(HatState(Unwrap(LastValue("DPad", 0)))))
        /\ \A i \in 0..(AxisLimit - 1) : Decoded.axis[i] = LastValue("Axis", i)
        /\ Decoded.slider = LastValue("Slider", 0)

\* the same fields decoded again, after another history, give the same snapshot
C29_SameReport ==
    (call.fn = "decode" /\ call'.fn = "decode" /\ IsSome(call.evt)
        /\ call'.fields = call.fields)
    => call'.devices[1].obj_states = call.devices[1].obj_states

\* C29: the snapshot decoded from a data notification depends only on the
\* mapping and the notification's fields, never on earlier reports: a button
\* not mentioned is Released, an axis, slider or hat not mentioned is absent,
\* the same report after two histories gives the same snapshot, and the stored
\* state is this snapshot.
C29_DecodeFromDefault == []C29_Snapshot /\ [][C29_SameReport]_vars

\* the report before pressed a button and carried hat, axis and slider; this
\* one mentions none of them, and they are Released and absent
C29_Witness ==
    /\ call.fn = "decode" /\ IsSome(call.evt)
    /\ 0 \in BitsOnes(call.prev.buttons) /\ IsSome(call.prev.dpad)
    /\ IsSome(call.prev.axis[0]) /\ IsSome(call.prev.slider)
    /\ FieldsFor("Button", 0) = {} /\ FieldsFor("Button", 1) # {}
    /\ 0 \notin BitsOnes(Decoded.buttons)
    /\ Decoded.dpad = None /\ Decoded.axis[0] = None /\ Decoded.slider = None

\* C30: for each (field index, boolean) pair of a report that maps to
\* Button(ordinal), the decoded state of the button is Pressed when the boolean
\* is true and Released when it is false; when several fields of one
\* notification map to the same ordinal, the last one decides.
C30_LastFieldDecides ==
    (call.fn = "decode" /\ IsSome(call.evt)) =>
        \A o \in 0..(CAP - 1) :
            FieldsFor("Button", o) # {} =>
                ((o \in BitsOnes(Decoded.buttons))
                    <=> call.fields[LastOf(FieldsFor("Button", o))][3])

\* the results of both resolvers on the descriptor of `call`
ApiResolved == call.api.tag = "Ok" /\ IsSome(call.api.val)
ApiCap == Unwrap(call.api.val)[2].cap
ModResolved == call.mod.tag = "Ok"
ModInfo == call.mod.val[1]
ModSpecs == call.mod.val[2]

\* the value capability records that no later value record shares its data
\* index with
LastValueRecords ==
    { k \in DOMAIN call.desc.value_caps :
        \A j \in DOMAIN call.desc.value_caps :
            j > k => call.desc.value_caps[j].DataIndex # call.desc.value_caps[k].DataIndex }

\* the kind the claim gives a value capability record
OwnKind(cap) ==
    IF cap.UsagePage = HID_USAGE_PAGE_GENERIC /\ cap.Usage = HID_USAGE_GENERIC_SLIDER
    THEN "Slider"
    ELSE IF cap.UsagePage = HID_USAGE_PAGE_GENERIC /\ cap.Usage = HID_USAGE_GENERIC_HATSWITCH
    THEN "Hat"
    ELSE IF cap.UsagePage = HID_USAGE_PAGE_GENERIC
            /\ cap.Usage \in { HID_AXIS_USAGES[i] : i \in 1..AxisLimit }
    THEN "Axis"
    ELSE "Unknown"

\* the axis type of an axis usage, X = 0 .. RZ = 5
OwnAxis(cap) == CHOOSE i \in 0..(AxisLimit - 1) : HID_AXIS_USAGES[i + 1] = cap.Usage

\* C25: every value capability record, range or single, is entered in the
\* mapping under its own data index and classified by its own (usage page,
\* usage): slider, hat, axis of the matching type, or Unknown(page, usage),
\* which stays in the mapping; in both resolvers.
C25_ValueCapsClassified ==
    call.fn = "resolve" =>
        \A k \in LastValueRecords :
            LET cap == call.desc.value_caps[k] IN
            /\ ApiResolved =>
                  /\ cap.DataIndex \in DOMAIN ApiCap.mapping
                  /\ ApiCap.mapping[cap.DataIndex].kind
                        = (IF OwnKind(cap) = "Hat" THEN "DPad" ELSE OwnKind(cap))
                  /\ OwnKind(cap) = "Axis" => ApiCap.mapping[cap.DataIndex].a = OwnAxis(cap)
            /\ ModResolved =>
                  /\ cap.DataIndex \in DOMAIN ModInfo.mapping
                  /\ ModInfo.mapping[cap.DataIndex].kind = OwnKind(cap)
                  /\ OwnKind(cap) = "Axis" =>
                        ModInfo.axises[ModInfo.mapping[cap.DataIndex].a + 1] = OwnAxis(cap)
                  /\ OwnKind(cap) = "Unknown" =>
                        /\ ModInfo.mapping[cap.DataIndex].a = cap.UsagePage
                        /\ ModInfo.mapping[cap.DataIndex].b = cap.Usage

\* C26: a hat-switch capability whose logical range is not [0,7] is still
\* entered in the mapping as a hat, and the values of later reports for its data
\* index are still decoded with the hat code table.
C26_OddHatStillDecoded ==
    call.fn = "resolve" =>
        \A k \in LastValueRecords :
            LET cap == call.desc.value_caps[k] IN
            (OwnKind(cap) = "Hat" /\ << cap.LogicalMin, cap.LogicalMax >> # << 0, 7 >>) =>
                /\ ApiResolved =>
                      /\ cap.DataIndex \in DOMAIN ApiCap.mapping
                      /\ ApiCap.mapping[cap.DataIndex].kind = "DPad"
                      /\ \A code \in 0..MaxHatCode :
                            LET res == get_input_event(
                                          MapInsert(EmptyMap, 1, Unwrap(call.api.val)[2]),
                                          FALSE, RawValueAt(cap.DataIndex, code))
                            IN  /\ res[1].tag = "Ok"
                                /\ res[2][1].obj_states.dpad = Some(HatState(code))
                /\ ModResolved =>
                      /\ cap.DataIndex \in DOMAIN ModInfo.mapping
                      /\ ModInfo.mapping[cap.DataIndex].kind = "Hat"

\* the ordinals that a mapping holds for a kind
OrdinalsOf(mapping, kind) ==
    { mapping[d].a : d \in { x \in DOMAIN mapping : mapping[x].kind = kind } }

\* C27: the DeviceSpecs produced at attach agrees with the mapping of the same
\* resolution: button_count is the number of Button ordinals in the mapping,
\* hats_count the number of Hat ordinals, the axis and slider sequences have one
\* element per Axis and Slider ordinal, and Axis(k), Slider(k) are element k.
C27_SpecsAgreeWithMapping ==
    (call.fn = "resolve" /\ ModResolved) =>
        /\ ModSpecs.button_count = Cardinality(OrdinalsOf(ModInfo.mapping, "Button"))
        /\ ModSpecs.hats_count = Cardinality(OrdinalsOf(ModInfo.mapping, "Hat"))
        /\ OrdinalsOf(ModInfo.mapping, "Axis") = 0..(Len(ModSpecs.axis) - 1)
        /\ OrdinalsOf(ModInfo.mapping, "Slider") = 0..(Len(ModSpecs.sliders) - 1)

\* the capability records of the descriptor in the order the resolvers read
\* them: button records, then value records
RecordCount == Len(call.desc.button_caps) + Len(call.desc.value_caps)

\* the mapping entries that record k makes when it is resolved alone
ApiAlone(k) ==
    IF k <= Len(call.desc.button_caps)
    THEN ApiButtonCaps(EmptyMap, << call.desc.button_caps[k] >>, 1)
    ELSE ApiValueCap(DeviceCapDefault,
                     call.desc.value_caps[k - Len(call.desc.button_caps)]).mapping

ModAlone(k) ==
    IF k <= Len(call.desc.button_caps)
    THEN ModButtonCaps(DevInfoDefault, << call.desc.button_caps[k] >>, 1).mapping
    ELSE ModValueCap([info |-> DevInfoDefault, axis_specs |-> << >>, slider_specs |-> << >>],
                     call.desc.value_caps[k - Len(call.desc.button_caps)]).info.mapping

\* the records that write field index d
ApiWriters(d) == { k \in 1..RecordCount : d \in DOMAIN ApiAlone(k) }
ModWriters(d) == { k \in 1..RecordCount : d \in DOMAIN ModAlone(k) }

\* the place in the encounter sequence where a data index occurs last
LastAt(enc, d) == CHOOSE k \in DOMAIN enc : enc[k] = d /\ \A j \in DOMAIN enc : enc[j] = d => j <= k

\* C28: during capability resolution a field index that already has a mapping
\* entry is overwritten by the later record (last writer wins) and resolution
\* still succeeds: the mapping has one entry per written field index, the one
\* of the last record that wrote it; in both resolvers.
C28_LastWriterWins ==
    (call.fn = "resolve" /\ RecordCount > 0) =>
        /\ ApiResolved
        /\ DOMAIN ApiCap.mapping = UNION { DOMAIN ApiAlone(k) : k \in 1..RecordCount }
        /\ \A d \in DOMAIN ApiCap.mapping :
              /\ ApiCap.mapping[d].kind = ApiAlone(LastOf(ApiWriters(d)))[d].kind
              /\ ApiCap.mapping[d].kind = "Axis" =>
                    ApiCap.mapping[d].a = ApiAlone(LastOf(ApiWriters(d)))[d].a
        /\ ModResolved
        /\ DOMAIN ModInfo.mapping = UNION { DOMAIN ModAlone(k) : k \in 1..RecordCount }
        /\ \A d \in DOMAIN ModInfo.mapping :
              /\ ModInfo.mapping[d].kind = ModAlone(LastOf(ModWriters(d)))[d].kind
              /\ ModInfo.mapping[d].kind = "Button" =>
                    ModInfo.mapping[d].a = LastAt(Encounter(call.desc.button_caps, 1), d) - 1

\* a field index written by two records of different kinds, in both resolvers
C28_Witness ==
    /\ call.fn = "resolve" /\ ApiResolved /\ ModResolved
    /\ \E d \in DOMAIN ApiCap.mapping :
          /\ d \in DOMAIN ModInfo.mapping
          /\ \E k \in ApiWriters(d) : ApiAlone(k)[d].kind # ApiCap.mapping[d].kind
          /\ \E k \in ModWriters(d) : ModAlone(k)[d].kind # ModInfo.mapping[d].kind

\* the arrival of a joystick or gamepad whose descriptor the platform can parse
ArrivalParsable(msg) ==
    IsArrival(msg) /\ msg.desc.sys_ok /\ msg.desc.hid_joystick /\ msg.desc.max_data_count > 0

\* C22: capability resolution rejects a device only when its descriptor cannot
\* be parsed: a parsable descriptor, with zero buttons and zero values too, is
\* accepted, gets a registry entry and yields an Attached event.
C22_ParsableIsAccepted ==
    ArrivalParsable(last.msg) =>
        /\ last.outcome = "event"
        /\ LastEventIs("Attached")
        /\ Unwrap(last.evt).id = last.msg.lparam
        /\ last.msg.lparam \in DOMAIN devices

\* the identities whose most recent lifecycle event on the channel is Attached
AttachedByEvents ==
    { Stream[i].evt.id : i \in
        { k \in DOMAIN Stream :
            /\ Stream[k].evt.type = "Attached"
            /\ \A j \in DOMAIN Stream :
                  (j > k /\ Stream[j].evt.type \in {"Attached", "Deattached"})
                      => Stream[j].evt.id # Stream[k].evt.id } }

\* C24: between loop iterations the identities in the registry are the
\* identities whose most recent lifecycle event pushed on the channel is
\* Attached: replaying Attached and Deattached events gives the registry's keys.
C24_RegistryMatchesEvents ==
    pc = "wait" => DOMAIN devices = AttachedByEvents

\* the usages that a device filter selects
SelectedUsages(typ) ==
    CASE typ = "Joystick" -> { HID_USAGE_GENERIC_JOYSTICK }
      [] typ = "Gamepad" -> { HID_USAGE_GENERIC_GAMEPAD }
      [] OTHER -> { HID_USAGE_GENERIC_JOYSTICK, HID_USAGE_GENERIC_GAMEPAD }

\* C23: start(config) registers exactly the usages that device_filter selects:
\* Joystick the joystick usage, Gamepad the gamepad usage, Both the two; and
\* every Attached event, and every registry entry, is of a selected class (the
\* api loop has no filter and registers the two usages).
C23_FilterSelectsClasses ==
    call.fn = "register" =>
        /\ { call.registered[i] : i \in DOMAIN call.registered }
              = (IF call.loop = "mod" THEN SelectedUsages(call.dev_type)
                 ELSE SelectedUsages("Both"))
        /\ call.loop = "mod" =>
              /\ (call.evt # << >> /\ call.evt[1] = "Attached") =>
                    call.usages[call.evt[2]] \in SelectedUsages(call.dev_type)
              /\ \A d \in DOMAIN call.usages : call.usages[d] \in SelectedUsages(call.dev_type)

\* with the Gamepad filter a gamepad was attached after another device change
C23_Witness ==
    /\ call.fn = "register" /\ call.loop = "mod" /\ call.dev_type = "Gamepad"
    /\ call.evt = << "Attached", 1 >>
    /\ call.usages[1] = HID_USAGE_GENERIC_GAMEPAD
    /\ 2 \in DOMAIN call.devices

\* a notification step of NotifySpec of the given kind has been taken
Notified(op) == call.fn = "notify" /\ call.op = op

\* the fields of the last notification, report after report
RECURSIVE NotifiedFieldsFrom(_)
NotifiedFieldsFrom(i) ==
    IF i > Len(call.reports) THEN << >>
    ELSE call.reports[i][2] \o NotifiedFieldsFrom(i + 1)

NotifiedFields == NotifiedFieldsFrom(1)

\* the last notification is data of a device of the registry, every report readable
DataDecodable ==
    /\ Notified("data") /\ call.hdev \in DOMAIN call.before
    /\ \A i \in DOMAIN call.reports : call.reports[i][1]

\* the mapping built at attach of the device of the last notification
NotifiedMapping == call.before[call.hdev].cap.mapping

\* the state stored for the device before and after the last notification
StoredBefore == call.before[call.hdev].obj_states
StoredAfter == call.devices[call.hdev].obj_states

\* the positions of the fields that the mapping resolves to (kind, a)
MappedFields(kind, a) ==
    { k \in DOMAIN NotifiedFields :
        /\ NotifiedFields[k][1] \in DOMAIN NotifiedMapping
        /\ NotifiedMapping[NotifiedFields[k][1]].kind = kind
        /\ NotifiedMapping[NotifiedFields[k][1]].a = a }

\* the positions of the fields that the mapping has no entry for
UnmappedFields ==
    { k \in DOMAIN NotifiedFields : NotifiedFields[k][1] \notin DOMAIN NotifiedMapping }

\* the raw value of the last field of (kind, a), None when no field names it
LastMapped(kind, a) ==
    IF MappedFields(kind, a) = {} THEN None
    ELSE Some(NotifiedFields[LastOf(MappedFields(kind, a))][2])

\* the snapshot that the mapped fields alone describe
MappedSnapshot ==
    [ dpad |-> IF MappedFields("DPad", 0) = {} THEN None
               ELSE Some(HatState(Unwrap(LastMapped("DPad", 0)))),
      buttons |-> { o \in 0..(CAP - 1) :
                      \E k \in MappedFields("Button", o) : NotifiedFields[k][3] },
      axis |-> [i \in 0..(AxisLimit - 1) |-> LastMapped("Axis", i)],
      slider |-> LastMapped("Slider", 0) ]

\* the last notification sent one StateDiff and nothing else
OneStateDiff == Len(call.evts) = 1 /\ call.evts[1].type = "StateDiff"

NotifiedDiffs == diffs(call.evts[1].body)

\* the positions in the diff list of the diffs of an axis ordinal, of the slider
AxisDiffsAt(i) ==
    { k \in DOMAIN NotifiedDiffs :
        NotifiedDiffs[k].kind = "Axis" /\ NotifiedDiffs[k].ident = Unwrap(J_AXIS[i]) }
SliderDiffsAt == { k \in DOMAIN NotifiedDiffs : NotifiedDiffs[k].kind = "Slider" }

\* no diff when the value is absent, else one diff that carries the value
DiffsCarry(positions, value) ==
    IF IsSome(value)
    THEN /\ Cardinality(positions) = 1
         /\ \A k \in positions : NotifiedDiffs[k].value = Unwrap(value)
    ELSE positions = {}

DPadDiffsAt == { k \in DOMAIN NotifiedDiffs : NotifiedDiffs[k].kind = "DPad" }

\* C33: a DPad diff is emitted for a data notification only if the current hat
\* state differs from the hat state last reported for the device; of two
\* consecutive reports that carry the same hat state, the second has no DPad
\* diff.
C33_DPadDiffOnChange ==
    (DataDecodable /\ call.tag = "Ok" /\ OneStateDiff /\ DPadDiffsAt # {}) =>
        StoredAfter.dpad # StoredBefore.dpad

DataMalformed ==
    /\ Notified("data") /\ call.hdev \in DOMAIN call.before
    /\ \E i \in DOMAIN call.reports : ~call.reports[i][1]

\* the failed notification left the registry as it was and sent one Warn
C35_FailedData ==
    DataMalformed =>
        /\ call.tag = "Err"
        /\ call.devices = call.before
        /\ Len(call.evts) = 1 /\ call.evts[1].type = "Warn"

\* the data decoded next for the same device is diffed against the state
\* stored before the failed notification
C35_NextData ==
    (DataMalformed /\ call'.fn = "notify" /\ call'.op = "data"
        /\ call'.hdev = call.hdev /\ call'.tag = "Ok")
    => /\ Len(call'.evts) = 1 /\ call'.evts[1].type = "StateDiff"
       /\ call'.evts[1].body.buttons[1] =
             BitsXor(call'.devices[call.hdev].obj_states.buttons, StoredBefore.buttons)
       /\ call'.evts[1].body.buttons[2] = call'.devices[call.hdev].obj_states.buttons

ReportedOn(i) ==
    { NotifiedMapping[f[1]].a :
        f \in { call.reports[i][2][k] : k \in DOMAIN call.reports[i][2] }
              \cap { g \in (DOMAIN NotifiedMapping) \X Nat \X {TRUE} :
                       NotifiedMapping[g[1]].kind = "Button" } }

\* the reports of the last notification with a field of (kind, a)
Mentioning(kind, a) ==
    { i \in DOMAIN call.reports :
        \E k \in DOMAIN call.reports[i][2] :
            /\ call.reports[i][2][k][1] \in DOMAIN NotifiedMapping
            /\ NotifiedMapping[call.reports[i][2][k][1]].kind = kind
            /\ NotifiedMapping[call.reports[i][2][k][1]].a = a }

\* the raw value of (kind, a) in the last report that mentions it
RECURSIVE LastIn(_, _, _, _)
LastIn(fields, kind, a, k) ==
    IF k = 0 THEN None
    ELSE IF /\ fields[k][1] \in DOMAIN NotifiedMapping
            /\ NotifiedMapping[fields[k][1]].kind = kind
            /\ NotifiedMapping[fields[k][1]].a = a
    THEN Some(fields[k][2])
    ELSE LastIn(fields, kind, a, k - 1)

FromLastReport(kind, a) ==
    IF Mentioning(kind, a) = {} THEN None
    ELSE LET fields == call.reports[LastOf(Mentioning(kind, a))][2]
         IN  LastIn(fields, kind, a, Len(fields))

ArrivedAgain == Notified("arrival") /\ call.hdev \in DOMAIN call.before

\* the entry of the identity is the one resolved for the Attached just sent
FreshEntry ==
    LET entry == call.devices[call.hdev]
        info == call.evts[1].body
    IN  IF call.loop = "api"
        THEN /\ entry.obj_states = DeviceObjectStatesDefault
             /\ ApiDeviceInfo(entry.cap) = info
        ELSE /\ entry.buttons = info.button_count
             /\ entry.hats = info.hats_count
             /\ Len(entry.axises) = Len(info.axis)
             /\ entry.sliders = Len(info.sliders)

\* the second arrival sends Attached alone and replaces the entry
C37_ArrivedAgain ==
    ArrivedAgain =>
        /\ call.tag = "Ok"
        /\ Len(call.evts) = 1 /\ call.evts[1].type = "Attached"
        /\ call.evts[1].id = call.hdev
        /\ DOMAIN call.devices = DOMAIN call.before
        /\ FreshEntry
        /\ \A d \in DOMAIN call.before : d # call.hdev => call.devices[d] = call.before[d]

\* the data decoded next for the identity is diffed against the default state
C37_NextData ==
    (ArrivedAgain /\ call'.fn = "notify" /\ call'.op = "data"
        /\ call'.hdev = call.hdev /\ call'.tag = "Ok")
    => /\ Len(call'.evts) = 1 /\ call'.evts[1].type = "StateDiff"
       /\ call'.evts[1].body.buttons[1] = call'.evts[1].body.buttons[2]

C38_ButtonOrdinalsFit ==
    (call.fn = "resolve" /\ ApiResolved) =>
        /\ ApiCap.buttons_num <= CAP
        /\ \A d \in ButtonFields(ApiCap.mapping) :
              /\ ApiCap.mapping[d].a < ApiCap.buttons_num
              /\ BitsSet(0, ApiCap.mapping[d].a)[2]

=============================================================================
